---------------------------- MODULE Spec2Model ----------------------------
(***************************************************************************)
(* A model of gamblebot: the odds utilities and the odds fetch loops       *)
(* (odds.py), the Kelly staking engine (staking.py), the probability       *)
(* models (model.py), the weekly-stats loader (data.py), the feature       *)
(* computation (features.py), the prediction log and its evaluation        *)
(* (evaluation.py) and the report pipeline (cli.py).                       *)
(*                                                                         *)
(* Numbers.  The program computes in IEEE doubles.  The model computes in  *)
(* exact rationals extended with NaN, +Inf and -Inf, which follow the IEEE *)
(* rules for division by zero and for NaN propagation; rounding to 53 bits *)
(* is not modelled.  A finite number is n/d + (en/ed)*eps, where eps is    *)
(* the staking engine's clip margin 1e-9, carried symbolically to first    *)
(* order (every quantity the engine derives from the clipped probability   *)
(* is linear in it), so that the clip is modelled with its own bounds and  *)
(* not with ones widened to fit the grid.                                  *)
(***************************************************************************)
EXTENDS Integers, Sequences, FiniteSets, TLC

VARIABLES
    stake_df,     \* staking: the table given to add_edge_and_stake
    stake_args,   \* staking: the keyword arguments kelly_fraction, unit_size
    stake_out,    \* staking: what add_edge_and_stake returned or raised
    stake_pc,     \* staking: "idle", "start" before the call, "done" after it
    feat_df,      \* models: the feature table given to the probability model
    model_df,     \* models: the table the probability model returned
    model_pc,     \* models: "idle", "start", then "td" or "sack" (model applied)
    odds_cmd,     \* odds: "two_td" (report, fetch_two_td_odds) or "sack" (sacks)
    odds_books,   \* odds: the --books filter, {} when none is given
    odds_events,  \* odds: the number of events _events_for_week listed
    odds_ev,      \* odds: the event the fetch loop is at (1-based)
    odds_mk,      \* odds: the candidate market the fetch loop is at (1-based)
    odds_rows,    \* odds: the rows collected so far / returned by the fetch
    odds_error,   \* odds: the exception that left the fetch, if any
    odds_df,      \* odds: the table normalize_book_odds / normalize_sack_odds returned
    odds_merged,  \* odds: the result of filtered.merge(odds_df, on="player")
    odds_pc,      \* odds: "idle", "start", "fetching", "raised", "fetched",
                  \*       "normalized", "merged"
    load_season,  \* loader: the season load_weekly_player_stats is called with
    load_week,    \* loader: the week it is called with (given = FALSE for None)
    load_feed,    \* loader: what the stats feed holds for each prior season
    load_y,       \* loader: the place of _load_prior_season_weekly_any's loop
    load_seen,    \* loader: the answers of the feed so far, the primary's first
    load_warnings,\* loader: the warnings emitted, in order
    load_out,     \* loader: what the call returned or raised
    load_from,    \* loader: the season whose rows were returned (0: none yet)
    load_calls,   \* loader: the number of calls made with these arguments
    load_pc,      \* loader: "idle", "primary", "prior", "pbp", "returned", "raised"
    weekly_raw,   \* features: the weekly table as the stats feed holds it
    weekly_df,    \* features: the weekly table given to the feature computation
    weekly_via,   \* features: "direct", or "loader" (load_weekly_player_stats)
    feats_out,    \* features: what the feature computation returned or raised
    feats_pc,     \* features: "idle", "start", "given", then "td" or "sack"
    log_file,     \* log: the prediction log, its existence and its lines
    log_last,     \* log: the last command run, its rows and the log size before it
    eval_args,    \* log: the season and week evaluated, and the weekly table loaded
    eval_out,     \* log: what evaluate_predictions returned
    log_pc,       \* log: "idle", "open" or "evaluated"
    fn_in,        \* functions: the argument of the function under study
    fn_out,       \* functions: its result
    fn_pc         \* functions: "idle", "start" or "done"

stake_vars == <<stake_df, stake_args, stake_out, stake_pc>>

model_vars == <<feat_df, model_df, model_pc>>

odds_vars == <<odds_cmd, odds_books, odds_events, odds_ev, odds_mk, odds_rows,
               odds_error, odds_df, odds_merged, odds_pc>>

load_vars == <<load_season, load_week, load_feed, load_y, load_seen,
               load_warnings, load_out, load_from, load_calls, load_pc>>

weekly_vars == <<weekly_raw, weekly_df, weekly_via, feats_out, feats_pc>>

log_vars == <<log_file, log_last, eval_args, eval_out, log_pc>>

fn_vars == <<fn_in, fn_out, fn_pc>>

rest_vars == <<weekly_vars, log_vars, fn_vars>>

vars == <<stake_vars, model_vars, odds_vars, load_vars, rest_vars>>

---------------------------------------------------------------------------
(* Extended rational arithmetic (the float operations of numpy / pandas).  *)

RECURSIVE GCD(_, _)
GCD(a, b) == IF b = 0 THEN a ELSE GCD(b, a % b)

Abs(x) == IF x < 0 THEN -x ELSE x

Sgn(x) == IF x > 0 THEN 1 ELSE IF x < 0 THEN -1 ELSE 0

NaN == [k |-> "nan", n |-> 0, d |-> 1, en |-> 0, ed |-> 1]

Inf(s) == [k |-> "inf", n |-> s, d |-> 1, en |-> 0, ed |-> 1]

\* n/d + (en/ed)*eps in lowest terms, denominators positive
Dual(n, d, en, ed) ==
    LET g  == GCD(Abs(n), Abs(d))
        ge == GCD(Abs(en), Abs(ed))
        s  == Sgn(d)
        se == Sgn(ed)
    IN  [k |-> "fin", n |-> s * (n \div g), d |-> s * (d \div g),
         en |-> se * (en \div ge), ed |-> se * (ed \div ge)]

Rat(n, d) == Dual(n, d, 0, 1)

Int2Num(i) == Rat(i, 1)

IsNaN(x) == x.k = "nan"

IsInf(x) == x.k = "inf"

IsFin(x) == x.k = "fin"

\* sign of a number: of its rational part, of its eps part when that is zero
Sign(x) ==
    IF IsNaN(x) THEN 0
    ELSE IF IsInf(x) THEN x.n
    ELSE IF x.n # 0 THEN Sgn(x.n) ELSE Sgn(x.en)

Neg(x) ==
    IF IsNaN(x) THEN NaN
    ELSE IF IsInf(x) THEN Inf(-x.n)
    ELSE Dual(-x.n, x.d, -x.en, x.ed)

\* a/b + c/d over the least common denominator
FracAdd(a, b, c, d) ==
    LET g == GCD(b, d)
        l == (b \div g) * d
    IN  <<a * (l \div b) + c * (l \div d), l>>

Add(x, y) ==
    IF IsNaN(x) \/ IsNaN(y) THEN NaN
    ELSE IF IsInf(x) /\ IsInf(y) THEN (IF x.n = y.n THEN x ELSE NaN)
    ELSE IF IsInf(x) THEN x
    ELSE IF IsInf(y) THEN y
    ELSE LET r == FracAdd(x.n, x.d, y.n, y.d)
             e == FracAdd(x.en, x.ed, y.en, y.ed)
         IN  Dual(r[1], r[2], e[1], e[2])

Sub(x, y) == Add(x, Neg(y))

\* a/b * c/d, cancelling before multiplying
FracMul(a, b, c, d) ==
    LET g1 == GCD(Abs(a), d)
        g2 == GCD(Abs(c), b)
        h1 == IF g1 = 0 THEN 1 ELSE g1
        h2 == IF g2 = 0 THEN 1 ELSE g2
    IN  <<(a \div h1) * (c \div h2), (b \div h2) * (d \div h1)>>

Mul(x, y) ==
    IF IsNaN(x) \/ IsNaN(y) THEN NaN
    ELSE IF IsInf(x) \/ IsInf(y)
         THEN (IF Sign(x) = 0 \/ Sign(y) = 0 THEN NaN ELSE Inf(Sign(x) * Sign(y)))
    ELSE LET r  == FracMul(x.n, x.d, y.n, y.d)
             e1 == FracMul(x.n, x.d, y.en, y.ed)
             e2 == FracMul(y.n, y.d, x.en, x.ed)
             e  == FracAdd(e1[1], e1[2], e2[1], e2[2])
         IN  Dual(r[1], r[2], e[1], e[2])

\* 1/y for a finite y whose rational part is not zero
Recip(y) ==
    LET r  == <<y.d * Sgn(y.n), Abs(y.n)>>
        q  == FracMul(r[1], r[2], r[1], r[2])
        e  == FracMul(-y.en, y.ed, q[1], q[2])
    IN  Dual(r[1], r[2], e[1], e[2])

\* IEEE division: x/0 is +-Inf, 0/0 and Inf/Inf are NaN, x/Inf is 0
Div(x, y) ==
    IF IsNaN(x) \/ IsNaN(y) THEN NaN
    ELSE IF IsInf(y) THEN (IF IsInf(x) THEN NaN ELSE Int2Num(0))
    ELSE IF IsInf(x) THEN Inf(x.n * (IF Sign(y) < 0 THEN -1 ELSE 1))
    ELSE IF y.n = 0
         THEN (IF Sign(x) = 0 THEN NaN ELSE Inf(Sign(x)))
    ELSE Mul(x, Recip(y))

\* comparisons are false when an operand is NaN
Lt(x, y) ==
    /\ ~IsNaN(x) /\ ~IsNaN(y)
    /\ IF IsInf(x) \/ IsInf(y)
       THEN (IF IsInf(x) /\ IsInf(y) THEN x.n < y.n
             ELSE IF IsInf(x) THEN x.n < 0 ELSE y.n > 0)
       ELSE Sign(Sub(x, y)) < 0

Eq(x, y) ==
    /\ ~IsNaN(x) /\ ~IsNaN(y)
    /\ IF IsInf(x) \/ IsInf(y) THEN x = y ELSE Sign(Sub(x, y)) = 0

Le(x, y) == Lt(x, y) \/ Eq(x, y)

Gt(x, y) == Lt(y, x)

Ge(x, y) == Le(y, x)

\* Series.clip / np.clip: NaN stays NaN
ClipLower(x, lo) == IF IsNaN(x) THEN NaN ELSE IF Lt(x, lo) THEN lo ELSE x

ClipUpper(x, hi) == IF IsNaN(x) THEN NaN ELSE IF Gt(x, hi) THEN hi ELSE x

Clip(x, lo, hi) == ClipUpper(ClipLower(x, lo), hi)

---------------------------------------------------------------------------
(* Tables (pandas DataFrames): the columns in order, and the rows, each a  *)
(* function from the column names to numbers.                              *)

Range(f) == {f[i] : i \in DOMAIN f}

ColSet(df) == Range(df.cols)

HasCol(df, c) == c \in ColSet(df)

\* df[c] = values: the column is replaced in place or appended at the end
SetCol(df, c, values) ==
    [cols |-> IF HasCol(df, c) THEN df.cols ELSE Append(df.cols, c),
     rows |-> [i \in DOMAIN df.rows |->
                 [x \in ColSet(df) \cup {c} |->
                    IF x = c THEN values[i] ELSE df.rows[i][x]]]]

Column(df, c) == [i \in DOMAIN df.rows |-> df.rows[i][c]]

\* Series.isna().all() and Series.notna().any()
AllNaN(col) == \A i \in DOMAIN col : IsNaN(col[i])

AnyNotNaN(col) == \E i \in DOMAIN col : ~IsNaN(col[i])

---------------------------------------------------------------------------
(* odds.py: the odds utilities.                                            *)

\* float(american) of a NaN is NaN, which fails both comparisons
american_to_decimal(a) ==
    IF Ge(a, Int2Num(100)) THEN Add(Int2Num(1), Div(a, Int2Num(100)))
    ELSE IF Le(a, Int2Num(-100))
         THEN Add(Int2Num(1), Div(Int2Num(100), IF Sign(a) < 0 THEN Neg(a) ELSE a))
    ELSE Int2Num(1)

american_to_implied(a) ==
    IF Gt(a, Int2Num(0)) THEN Div(Int2Num(100), Add(a, Int2Num(100)))
    ELSE LET m == IF Sign(a) < 0 THEN Neg(a) ELSE a
         IN  Div(m, Add(m, Int2Num(100)))

---------------------------------------------------------------------------
(* filters.py: the name normalization of the injury filter.                *)

\* _clean_name: _NAME_CLEAN_RE.sub("", str(x).lower()), lower case with
\* everything but the letters a-z removed, over the names of the model
clean_name(x) ==
    CASE x \in {"A", "a."} -> "a"
      [] x = "B" -> "b"
      [] x = "C" -> "c"
      [] x = "D" -> "d"
      [] OTHER -> ""

---------------------------------------------------------------------------
(* odds.py: the odds feed.  An outcome of the feed's JSON is a record      *)
(*   book         the key of the bookmaker it is listed under              *)
(*   key          the key of the market entry it is listed under           *)
(*   name         "Over" or "Under"                                        *)
(*   participant  the player, "" when the outcome names nobody             *)
(*   priced, price    whether it has a price, and the American price       *)
(*   pointed, point   whether it has a line point, and the point in 1/100  *)
(*   keyword      whether its description text holds the prop's keyword    *)
(*                ("2+", "1+", ...)                                        *)

market_order(cmd) ==
    IF cmd = "two_td"
    THEN <<"player_tds_over", "player_rush_reception_tds_alternate">>
    ELSE <<"player_sacks_over", "player_sacks">>

\* _extract_player_name: the structured participant field, or nothing ("")
\* when every candidate text is missing or is just "Over" / "Under"
extract_player_name(out) == out.participant

\* a slip: the keyword of the text accepted next to a numeric line
is_two_plus_or_keyword(market, out) ==
    \/ out.keyword
    \/ out.pointed /\ (IF market = "player_tds_over"
                        THEN 150 <= out.point /\ out.point < 250
                        ELSE Abs(out.point - 200) < 1)

\* _is_two_plus(market_key, outcome)[0]
is_two_plus(market, out) ==
    IF market = "player_tds_over"
    THEN (IF out.pointed THEN 150 <= out.point /\ out.point < 250 ELSE out.keyword)
    ELSE (IF out.pointed THEN Abs(out.point - 200) < 1 ELSE out.keyword)

\* _is_one_sack(market_key, outcome)[0]
is_one_sack(market, out) ==
    IF out.pointed THEN 45 <= out.point /\ out.point <= 105 ELSE out.keyword

\* "sack" in str(mk.get("key", "")), over the market keys of the model
is_sack_key(key) == key \in {"player_sacks_over", "player_sacks"}

\* the chain of `continue` tests an outcome passes before its row is appended
accepted(cmd, market, books, out) ==
    /\ books # {} => out.book \in books
    /\ IF cmd = "two_td" THEN out.key = market ELSE is_sack_key(out.key)
    /\ out.priced
    /\ IF cmd = "two_td" THEN is_two_plus(market, out) ELSE is_one_sack(market, out)
    /\ extract_player_name(out) # ""

\* the row appended for an accepted outcome (home_team and away_team, copied
\* from the event, are left out); a line of None is NaN in the table
odds_row(ev, market, out) ==
    [event_id     |-> ev,
     book         |-> out.book,
     player       |-> extract_player_name(out),
     odds         |-> Int2Num(out.price),
     implied_prob |-> american_to_implied(Int2Num(out.price)),
     line         |-> IF out.pointed THEN Rat(out.point, 100) ELSE NaN,
     market       |-> market]

accepted_outcomes(cmd, market, books, reply) ==
    SelectSeq(reply, LAMBDA out : accepted(cmd, market, books, out))

\* the rows one answered lookup adds
lookup_rows(cmd, market, books, ev, reply) ==
    [i \in DOMAIN accepted_outcomes(cmd, market, books, reply) |->
       odds_row(ev, market, accepted_outcomes(cmd, market, books, reply)[i])]

\* --- normalization ---

\* pd.DataFrame(rows): no column at all when there is no row
DataFrame(rows) ==
    IF rows = <<>> THEN [cols |-> <<>>, rows |-> <<>>]
    ELSE [cols |-> <<"event_id", "book", "player", "odds", "implied_prob",
                     "line", "market">>,
          rows |-> rows]

InsertAt(s, k, r) == SubSeq(s, 1, k) \o <<r>> \o SubSeq(s, k + 1, Len(s))

\* the places of a sorted sequence where r may go; rows of equal
\* implied_prob may end up in either order (quicksort is not stable)
SortedPlaces(s, r) ==
    {k \in 0..Len(s) :
       /\ \A i \in 1..k : Le(s[i]["implied_prob"], r["implied_prob"])
       /\ \A i \in (k + 1)..Len(s) : Le(r["implied_prob"], s[i]["implied_prob"])}

\* df.sort_values("implied_prob"): the orders the sort may produce
RECURSIVE sort_values(_)
sort_values(rows) ==
    IF rows = <<>> THEN {<<>>}
    ELSE UNION {{InsertAt(s, k, Head(rows)) : k \in SortedPlaces(s, Head(rows))} :
                  s \in sort_values(Tail(rows))}

RECURSIVE keep_first(_, _)
keep_first(rows, seen) ==
    IF rows = <<>> THEN <<>>
    ELSE IF Head(rows)["player"] \in seen THEN keep_first(Tail(rows), seen)
    ELSE <<Head(rows)>> \o keep_first(Tail(rows), seen \cup {Head(rows)["player"]})

Reverse(s) == [i \in DOMAIN s |-> s[Len(s) + 1 - i]]

\* drop_duplicates(subset=["player"], keep="last")
drop_duplicates_keep_last(rows) == Reverse(keep_first(Reverse(rows), {}))

\* drop_duplicates(subset=["player"], keep="first")
drop_duplicates(rows) == keep_first(rows, {})

\* df[cols]
Project(rows, cols) ==
    [cols |-> cols,
     rows |-> [i \in DOMAIN rows |-> [c \in Range(cols) |-> rows[i][c]]]]

\* what normalize_book_odds returns when the sort produced `sorted`
book_odds_of(df, sorted) ==
    IF df.rows = <<>> THEN df
    ELSE Project(drop_duplicates(sorted), <<"player", "odds", "implied_prob">>)

\* what normalize_sack_odds returns when the sort produced `sorted`
sack_odds_of(df, sorted) ==
    IF df.rows = <<>> THEN df
    ELSE Project(drop_duplicates(sorted), <<"player", "line", "odds", "implied_prob">>)

\* the results normalize_book_odds(rows) may return
normalize_book_odds(rows) ==
    {book_odds_of(DataFrame(rows), sorted) : sorted \in sort_values(rows)}

\* the results normalize_sack_odds(rows) may return
normalize_sack_odds(rows) ==
    {sack_odds_of(DataFrame(rows), sorted) : sorted \in sort_values(rows)}

---------------------------------------------------------------------------
(* staking.py: the Kelly staking engine.                                   *)

PROB_COL_CANDIDATES ==
    <<"model_prob", "p_model", "probability", "prob", "p", "p_two_td">>

\* the columns pandas holds as floats when the pipeline builds the table;
\* prices (int(price)) and counts are integer columns
FloatColumns ==
    {"model_prob", "p_model", "probability", "prob", "p", "p_two_td",
     "decimal", "implied_prob", "recent_opps", "line"}

is_float_dtype(c) == c \in FloatColumns

\* s.between(0.0, 1.0).mean() > 0.9 over the non-NaN values of a column
LooksLikeProbabilities(col) ==
    LET some == {i \in DOMAIN col : ~IsNaN(col[i])}
        in01 == {i \in some : Ge(col[i], Int2Num(0)) /\ Le(col[i], Int2Num(1))}
    IN  some # {} /\ 10 * Cardinality(in01) > 9 * Cardinality(some)

KeyError(what, tried) == [status |-> "KeyError", what |-> what, tried |-> tried]

Found(x) == [status |-> "ok", value |-> x]

find_prob_col(df, candidates) ==
    LET named == {i \in DOMAIN candidates : HasCol(df, candidates[i])}
        guess == {i \in DOMAIN df.cols :
                    /\ is_float_dtype(df.cols[i])
                    /\ LooksLikeProbabilities(Column(df, df.cols[i]))}
        Min(S) == CHOOSE i \in S : \A j \in S : i <= j
    IN  IF named # {} THEN Found(candidates[Min(named)])
        ELSE IF guess # {} THEN Found(df.cols[Min(guess)])
        ELSE KeyError("model probability", candidates)

ensure_decimal_odds(df) ==
    IF HasCol(df, "decimal") /\ AnyNotNaN(Column(df, "decimal"))
    THEN Found(Column(df, "decimal"))
    ELSE IF HasCol(df, "american") \/ HasCol(df, "odds")
    THEN LET american_col == IF HasCol(df, "american") THEN "american" ELSE "odds"
         IN  Found([i \in DOMAIN df.rows |->
                      american_to_decimal(df.rows[i][american_col])])
    ELSE KeyError("odds", <<"decimal", "american", "odds">>)

\* the clip margin 1e-9 of the model probability
ClipLo == Dual(0, 1, 1, 1)

ClipHi == Dual(1, 1, -1, 1)

\* a slip: the division by b left out
kelly_full_undivided(b, p) ==
    LET raw == Sub(Mul(b, p), Sub(Int2Num(1), p))
    IN  IF IsInf(raw) \/ IsNaN(raw) THEN Int2Num(0) ELSE raw

\* kelly_full = (b*p - (1-p)) / b, then Inf -> NaN -> 0
kelly_full_of(b, p) ==
    LET raw == Div(Sub(Mul(b, p), Sub(Int2Num(1), p)), b)
    IN  IF IsInf(raw) \/ IsNaN(raw) THEN Int2Num(0) ELSE raw

\* a slip: the clip at zero left out
stake_units_unclipped(kelly_fraction, kelly_full) ==
    Mul(kelly_fraction, kelly_full)

stake_units_of(kelly_fraction, kelly_full) ==
    ClipLower(Mul(kelly_fraction, kelly_full), Int2Num(0))

\* out["decimal"] = ...; out["implied_prob"] = 1/decimal where decimal > 1,
\* NaN elsewhere, unless the table has an implied_prob column holding a number
implied_from_decimal(out) ==
    [i \in DOMAIN out.rows |->
       IF Gt(out.rows[i]["decimal"], Int2Num(1))
       THEN Div(Int2Num(1), out.rows[i]["decimal"])
       ELSE NaN]

with_implied_prob(out) ==
    IF ~HasCol(out, "implied_prob") \/ AllNaN(Column(out, "implied_prob"))
    THEN SetCol(out, "implied_prob", implied_from_decimal(out))
    ELSE out

\* p = out[p_col].astype(float).clip(1e-9, 1 - 1e-9)
clipped_prob(row, p_col) == Clip(row[p_col], ClipLo, ClipHi)

row_kelly_full(row, p_col) ==
    kelly_full_of(Sub(row["decimal"], Int2Num(1)), clipped_prob(row, p_col))

row_stake_units(row, p_col, kelly_fraction) ==
    stake_units_of(kelly_fraction, row_kelly_full(row, p_col))

\* a slip: the edge taken as implied_prob - p
row_edge_reversed(row, p_col) == Sub(row["implied_prob"], clipped_prob(row, p_col))

\* edge = p - implied_prob
row_edge(row, p_col) == Sub(clipped_prob(row, p_col), row["implied_prob"])

\* the row with edge, kelly_full, stake_units and stake_amount set
staked_row(row, p_col, kelly_fraction, unit_size) ==
    [c \in DOMAIN row \cup {"edge", "kelly_full", "stake_units", "stake_amount"} |->
       CASE c = "edge"         -> row_edge(row, p_col)
         [] c = "kelly_full"   -> row_kelly_full(row, p_col)
         [] c = "stake_units"  -> row_stake_units(row, p_col, kelly_fraction)
         [] c = "stake_amount" -> Mul(row_stake_units(row, p_col, kelly_fraction),
                                      unit_size)
         [] OTHER              -> row[c]]

AppendNew(cols, c) == IF c \in Range(cols) THEN cols ELSE Append(cols, c)

staked_table(out, p_col, kelly_fraction, unit_size) ==
    [status |-> "ok",
     p_col  |-> p_col,
     cols   |-> AppendNew(AppendNew(AppendNew(AppendNew(out.cols,
                  "edge"), "kelly_full"), "stake_units"), "stake_amount"),
     rows   |-> [i \in DOMAIN out.rows |->
                   staked_row(out.rows[i], p_col, kelly_fraction, unit_size)]]

\* from the model probability column on (staking.py lines 83 to 97)
stake_with_odds(out, kelly_fraction, unit_size) ==
    IF find_prob_col(out, PROB_COL_CANDIDATES).status # "ok"
    THEN find_prob_col(out, PROB_COL_CANDIDATES)
    ELSE staked_table(out, find_prob_col(out, PROB_COL_CANDIDATES).value,
                      kelly_fraction, unit_size)

add_edge_and_stake(df, kelly_fraction, unit_size) ==
    IF ensure_decimal_odds(df).status # "ok"
    THEN ensure_decimal_odds(df)
    ELSE stake_with_odds(
           with_implied_prob(SetCol(df, "decimal", ensure_decimal_odds(df).value)),
           kelly_fraction, unit_size)

---------------------------------------------------------------------------
(* model.py: the probability models.                                       *)

\* 10000 * exp(-k/10) to the nearest integer, k = 0 .. 100
ExpNegTable ==
    <<
      10000, 9048, 8187, 7408, 6703, 6065, 5488, 4966, 4493, 4066,
      3679, 3329, 3012, 2725, 2466, 2231, 2019, 1827, 1653, 1496,
      1353, 1225, 1108, 1003, 907, 821, 743, 672, 608, 550,
      498, 450, 408, 369, 334, 302, 273, 247, 224, 202,
      183, 166, 150, 136, 123, 111, 101, 91, 82, 74,
      67, 61, 55, 50, 45, 41, 37, 33, 30, 27,
      25, 22, 20, 18, 17, 15, 14, 12, 11, 10,
      9, 8, 7, 7, 6, 6, 5, 5, 4, 4,
      3, 3, 3, 2, 2, 2, 2, 2, 2, 1,
      1, 1, 1, 1, 1, 1, 1, 1, 1, 1,
      0
    >>

\* np.exp(-x) for x >= 0, to four decimals: tabulated at the multiples of
\* 0.1 and interpolated linearly between them; 0 from x = 10 on
ExpNegFinite(n, d) ==
    IF (10 * n) \div d >= 100 THEN Rat(ExpNegTable[101], 10000)
    ELSE Rat(ExpNegTable[(10 * n) \div d + 1] * d
               - (ExpNegTable[(10 * n) \div d + 1] - ExpNegTable[(10 * n) \div d + 2])
                   * ((10 * n) % d),
             10000 * d)

ExpNeg(x) ==
    IF IsNaN(x) THEN NaN
    ELSE IF IsInf(x) THEN (IF x.n > 0 THEN Int2Num(0) ELSE Inf(1))
    ELSE ExpNegFinite(x.n, x.d)

\* pd.to_numeric(..., errors="coerce").fillna(v)
fillna(x, v) == IF IsNaN(x) THEN v ELSE x

RECURSIVE SumTo(_, _)
SumTo(col, n) == IF n = 0 THEN Int2Num(0) ELSE Add(SumTo(col, n - 1), col[n])

\* Series.sum() and Series.mean(): NaN values are skipped
SeriesSum(col) == SumTo([i \in DOMAIN col |-> fillna(col[i], Int2Num(0))], Len(col))

SeriesMean(col) ==
    IF AllNaN(col) THEN NaN
    ELSE Div(SeriesSum(col),
             Int2Num(Cardinality({i \in DOMAIN col : ~IsNaN(col[i])})))

filled_column(df, c, v) == [i \in DOMAIN df.rows |-> fillna(df.rows[i][c], v)]

\* the weight of an estimate that is never shrunk
full_weight(size, prior_strength) == Int2Num(1)

\* the weight w = size / (size + prior_strength) of the player's own estimate
shrink_weight(size, prior_strength) == Div(size, Add(size, prior_strength))

\* w * estimate + (1 - w) * prior
shrunk(w, estimate, prior) ==
    Add(Mul(w, estimate), Mul(Sub(Int2Num(1), w), prior))

\* --- 2+ touchdowns ---

\* p0 = two_plus.sum() / games.sum(), 0.01 without games, clipped to [0.002, 0.05]
td_league_prior(df) ==
    Clip(IF Gt(SeriesSum(Column(df, "games")), Int2Num(0))
         THEN Div(SeriesSum(Column(df, "two_plus")), SeriesSum(Column(df, "games")))
         ELSE Rat(1, 100),
         Rat(2, 1000), Rat(5, 100))

td_lambda(row) == ClipLower(fillna(row["mean_td"], Int2Num(0)), Int2Num(0))

\* P(X >= 2) of a Poisson variable of mean lam
poisson_p_ge2(lam) == Sub(Int2Num(1), Mul(ExpNeg(lam), Add(Int2Num(1), lam)))

td_prior_strength == Int2Num(8)

td_cap == Rat(30, 100)

td_model_prob(row, p0) ==
    Clip(shrunk(shrink_weight(fillna(row["games"], Int2Num(0)), td_prior_strength),
                poisson_p_ge2(td_lambda(row)), p0),
         Int2Num(0), td_cap)

add_model_probability(df) ==
    [cols |-> <<"player", "model_prob">>,
     rows |-> [i \in DOMAIN df.rows |->
                 [c \in {"player", "model_prob"} |->
                    IF c = "player" THEN df.rows[i]["player"]
                    ELSE td_model_prob(df.rows[i], td_league_prior(df))]]]

\* --- 1+ sack ---

\* pressures_per_game.fillna(0.0) / pass_rush_snaps.fillna(1.0)
pressure_rate(row) ==
    Div(fillna(row["pressures_per_game"], Int2Num(0)),
        fillna(row["pass_rush_snaps"], Int2Num(1)))

sack_lambda(row) ==
    Mul(Mul(Mul(pressure_rate(row), fillna(row["prwin"], Int2Num(0))),
            fillna(row["opp_dropbacks"], Int2Num(30))),
        fillna(row["opp_sack_rate_allowed"], Rat(7, 100)))

\* P(X >= 1) of a Poisson variable of mean lam.clip(lower=0)
poisson_p_ge1(lam) == Sub(Int2Num(1), ExpNeg(ClipLower(lam, Int2Num(0))))

\* lam0 = lam.mean() if len(lam) else 0.05; p0 = 1 - exp(-lam0)
sack_league_prior(df) ==
    Sub(Int2Num(1),
        ExpNeg(IF Len(df.rows) > 0
               THEN SeriesMean([i \in DOMAIN df.rows |-> sack_lambda(df.rows[i])])
               ELSE Rat(5, 100)))

sack_prior_strength == Int2Num(200)

sack_cap == Rat(95, 100)

sack_model_prob(row, p0) ==
    Clip(shrunk(shrink_weight(fillna(row["pass_rush_snaps"], Int2Num(0)),
                              sack_prior_strength),
                poisson_p_ge1(sack_lambda(row)), p0),
         Int2Num(0), sack_cap)

add_sack_model_probability(df) ==
    [cols |-> <<"player", "pass_rush_snaps", "model_prob">>,
     rows |-> [i \in DOMAIN df.rows |->
                 [c \in {"player", "pass_rush_snaps", "model_prob"} |->
                    IF c = "model_prob"
                    THEN sack_model_prob(df.rows[i], sack_league_prior(df))
                    ELSE df.rows[i][c]]]]

---------------------------------------------------------------------------
(* data.py: the weekly-stats loader.  The numbers of a weekly table are    *)
(* extended rationals (NaN for a missing value), names are strings.        *)

\* next((c for c in candidates if c in df.columns), None); "" for None
FirstPresent(df, candidates) ==
    IF \E i \in DOMAIN candidates : HasCol(df, candidates[i])
    THEN candidates[CHOOSE i \in DOMAIN candidates :
                      /\ HasCol(df, candidates[i])
                      /\ \A j \in 1..(i - 1) : ~HasCol(df, candidates[j])]
    ELSE ""

\* a column holding the same value in every row
ConstCol(df, v) == [i \in DOMAIN df.rows |-> v]

\* df[df[c] == v]
WhereEq(df, c, v) ==
    [cols |-> df.cols, rows |-> SelectSeq(df.rows, LAMBDA r : Eq(r[c], v))]

\* pd.NA
NA == "<NA>"

player_candidates ==
    <<"player_display_name", "player_name", "full_name", "player", "name">>

team_candidates == <<"recent_team", "team", "player_team", "posteam">>

\* if target not in df.columns: df[target] = df[source]
CopyIfMissing(df, target, source) ==
    IF HasCol(df, target) THEN df ELSE SetCol(df, target, Column(df, source))

\* --- Player name ---
norm_player(df) ==
    IF FirstPresent(df, player_candidates) = ""
    THEN SetCol(SetCol(df, "player", ConstCol(df, "")),
                "player_display_name", ConstCol(df, ""))
    ELSE CopyIfMissing(SetCol(df, "player",
                              Column(df, FirstPresent(df, player_candidates))),
                       "player_display_name", "player")

\* --- Team columns ---
norm_team(df) ==
    IF FirstPresent(df, team_candidates) = ""
    THEN SetCol(SetCol(df, "team", ConstCol(df, NA)), "recent_team", ConstCol(df, NA))
    ELSE CopyIfMissing(SetCol(df, "team",
                              Column(df, FirstPresent(df, team_candidates))),
                       "recent_team", "team")

\* pd.to_numeric(df[c], errors="coerce").fillna(0).astype(int)
to_int_column(df, c) ==
    SetCol(df, c, [i \in DOMAIN df.rows |-> fillna(df.rows[i][c], Int2Num(0))])

\* the first alias present gives the column, else it is 0
with_alias(df, target, aliases) ==
    IF HasCol(df, target) THEN df
    ELSE IF FirstPresent(df, aliases) # ""
         THEN SetCol(df, target, Column(df, FirstPresent(df, aliases)))
         ELSE SetCol(df, target, ConstCol(df, Int2Num(0)))

\* --- Week column ---
norm_week(df) == to_int_column(with_alias(df, "week", <<"game_week">>), "week")

\* --- Touchdowns and usage stats ---
norm_stats(df) ==
    to_int_column(
      to_int_column(
        to_int_column(
          to_int_column(
            with_alias(
              with_alias(
                with_alias(
                  with_alias(df, "rushing_td", <<"rushing_tds", "rush_td">>),
                  "receiving_td", <<"receiving_tds", "rec_td">>),
                "rush_att", <<"rushing_attempts", "carries">>),
              "targets", <<>>),
            "rushing_td"),
          "receiving_td"),
        "rush_att"),
      "targets")

\* --- Player ID ---: player + ":" + team, a missing value counting as "";
\* the concatenation is modelled as the pair
norm_player_id(df) ==
    IF HasCol(df, "player_id") THEN df
    ELSE SetCol(df, "player_id",
                [i \in DOMAIN df.rows |->
                   <<df.rows[i]["player"],
                     IF df.rows[i]["team"] = NA THEN "" ELSE df.rows[i]["team"]>>])

normalize_weekly_columns(df) ==
    norm_player_id(norm_stats(norm_week(norm_team(norm_player(df)))))

\* if week is not None and "week" in df.columns: df = df[df["week"] == week]
week_filter(df, week) ==
    IF week.given /\ HasCol(df, "week")
    THEN WhereEq(df, "week", Int2Num(week.n))
    ELSE df

\* what load_weekly_player_stats returns for a loaded weekly table
loaded(df, week) == normalize_weekly_columns(week_filter(df, week))

\* max_back of _load_prior_season_weekly_any
max_back == 5

\* range(season - 1, season - 1 - max_back, -1), oldest first
prior_seasons_oldest_first(season) ==
    [i \in 1..max_back |-> season - max_back - 1 + i]

\* range(season - 1, season - 1 - max_back, -1)
prior_seasons(season) == [i \in 1..max_back |-> season - i]

\* int(prior["season"].iloc[0]) if "season" in prior.columns and not
\* prior.empty else season - 1
prior_season_of(prior, season) ==
    IF HasCol(prior, "season") /\ prior.rows # <<>>
    THEN prior.rows[1]["season"].n
    ELSE season - 1

\* the frame of the last resort when the play-by-play build raises
expected_cols ==
    <<"player", "team", "week", "rush_att", "targets", "rushing_td",
      "receiving_td", "player_id", "player_display_name", "recent_team">>

\* --- minimal weekly stats from play-by-play ---

\* the names, teams and weeks of the model, each in sorting order
PlayerNames == <<"A", "B", "C", "D">>

TeamNames == <<"KC", "SF">>

WeekNumbers == <<1, 2>>

\* every (player, team, week) key in the order groupby and merge sort them
KeyUniverse ==
    [i \in 1..(Len(PlayerNames) * Len(TeamNames) * Len(WeekNumbers)) |->
       <<PlayerNames[((i - 1) \div (Len(TeamNames) * Len(WeekNumbers))) + 1],
         TeamNames[(((i - 1) \div Len(WeekNumbers)) % Len(TeamNames)) + 1],
         Int2Num(WeekNumbers[((i - 1) % Len(WeekNumbers)) + 1])>>]

\* the schema aliases and the "ensure presence / types" loop
pbp_flags(pbp) ==
    to_int_column(
      to_int_column(
        to_int_column(
          to_int_column(
            with_alias(
              with_alias(
                with_alias(
                  with_alias(pbp, "rush_attempt", <<"rush">>),
                  "rush_touchdown", <<"rush_td">>),
                "pass_attempt", <<"pass">>),
              "pass_touchdown", <<"pass_td">>),
            "rush_attempt"),
          "rush_touchdown"),
        "pass_attempt"),
      "pass_touchdown")

rush_name(pbp) == FirstPresent(pbp, <<"rusher_player_name", "rusher">>)

rec_name(pbp) == FirstPresent(pbp, <<"receiver_player_name", "receiver">>)

team_col(pbp) == FirstPresent(pbp, <<"posteam", "pos_team", "offense">>)

\* the plays of the mask (pbp[flag] == 1) & pbp[name].notna()
masked_plays(pbp, flag, name) ==
    IF name = "" \/ team_col(pbp) = "" THEN <<>>
    ELSE SelectSeq(pbp.rows, LAMBDA r : Eq(r[flag], Int2Num(1)) /\ r[name] # NA)

play_key(pbp, r, name) == <<r[name], r[team_col(pbp)], r["week"]>>

\* the sum of a column over the plays of a key, NaN (no row on that side of
\* the outer merge) filled with 0
key_sum(pbp, plays, name, key, c) ==
    SeriesSum([i \in DOMAIN SelectSeq(plays, LAMBDA r : play_key(pbp, r, name) = key) |->
                 SelectSeq(plays, LAMBDA r : play_key(pbp, r, name) = key)[i][c]])

key_count(pbp, plays, name, key) ==
    Int2Num(Len(SelectSeq(plays, LAMBDA r : play_key(pbp, r, name) = key)))

pbp_keys(pbp) ==
    {play_key(pbp, r, rush_name(pbp)) :
       r \in Range(masked_plays(pbp, "rush_attempt", rush_name(pbp)))}
    \cup {play_key(pbp, r, rec_name(pbp)) :
            r \in Range(masked_plays(pbp, "pass_attempt", rec_name(pbp)))}

\* one row of pd.merge(rush, rec, on=["player", "team", "week"], how="outer")
pbp_row(pbp, key) ==
    [c \in {"player", "team", "week", "rush_att", "rushing_td", "targets",
            "receiving_td"} |->
       CASE c = "player" -> key[1]
         [] c = "team"   -> key[2]
         [] c = "week"   -> key[3]
         [] c = "rush_att" ->
              key_sum(pbp, masked_plays(pbp, "rush_attempt", rush_name(pbp)),
                      rush_name(pbp), key, "rush_attempt")
         [] c = "rushing_td" ->
              key_sum(pbp, masked_plays(pbp, "rush_attempt", rush_name(pbp)),
                      rush_name(pbp), key, "rush_touchdown")
         [] c = "targets" ->
              key_count(pbp, masked_plays(pbp, "pass_attempt", rec_name(pbp)),
                        rec_name(pbp), key)
         [] c = "receiving_td" ->
              key_sum(pbp, masked_plays(pbp, "pass_attempt", rec_name(pbp)),
                      rec_name(pbp), key, "pass_touchdown")]

pbp_table(pbp) ==
    [cols |-> <<"player", "team", "week", "rush_att", "rushing_td", "targets",
                "receiving_td">>,
     rows |-> [i \in DOMAIN SelectSeq(KeyUniverse, LAMBDA k : k \in pbp_keys(pbp)) |->
                 pbp_row(pbp, SelectSeq(KeyUniverse, LAMBDA k : k \in pbp_keys(pbp))[i])]]

\* _weekly_player_stats_from_pbp(season, week) on the play-by-play table
\* import_pbp_data returned (a table with a week column)
weekly_player_stats_from_pbp(pbp, week) ==
    week_filter(pbp_table(pbp_flags(week_filter(pbp, week))), week)

---------------------------------------------------------------------------
(* features.py: the per-player features of the touchdown and sack reports. *)

\* _first_nonempty_col over the aliases of each identifier; "" for None
feature_player_col(df) ==
    FirstPresent(df, <<"player", "player_display_name", "full_name", "name">>)

feature_team_col(df) == FirstPresent(df, <<"recent_team", "team", "posteam">>)

feature_pos_col(df) == FirstPresent(df, <<"position", "pos">>)

feature_week_col(df) == FirstPresent(df, <<"week", "game_week">>)

feature_opp_col(df) == FirstPresent(df, <<"opponent", "opp", "defteam", "opp_team">>)

\* df[col].astype(str) if col else ""
str_or_blank(r, col) == IF col = "" THEN "" ELSE r[col]

\* the week of row i: its week column, or range(1, len(df) + 1) without one
week_of(df, i) ==
    IF feature_week_col(df) = "" THEN Int2Num(i)
    ELSE df.rows[i][feature_week_col(df)]

RECURSIVE nz_to(_, _, _)
nz_to(r, present, n) ==
    IF n = 0 THEN Int2Num(0)
    ELSE Add(nz_to(r, present, n - 1), fillna(r[present[n]], Int2Num(0)))

\* _nz_int / _nz_float: the columns of the list that are present, each with
\* NaN filled by 0, added up; 0 when none is present
nz_int(df, r, colnames) ==
    nz_to(r, SelectSeq(colnames, LAMBDA c : HasCol(df, c)),
          Len(SelectSeq(colnames, LAMBDA c : HasCol(df, c))))

\* df["td_total"] = rushing_td + receiving_td
td_total(df, r) ==
    Add(nz_int(df, r, <<"rushing_td", "rush_td", "rushing_tds">>),
        nz_int(df, r, <<"receiving_td", "rec_td", "receiving_tds">>))

\* df["opps"] = rush_att + targets
opps(df, r) ==
    Add(nz_int(df, r, <<"rushing_att", "rushing_attempts", "rush_att", "carries">>),
        nz_int(df, r, <<"targets", "rec_targets">>))

\* the working frame of compute_td_rate, one record per weekly row
td_frame(df) ==
    [i \in DOMAIN df.rows |->
       [player   |-> df.rows[i][feature_player_col(df)],
        team     |-> str_or_blank(df.rows[i], feature_team_col(df)),
        position |-> str_or_blank(df.rows[i], feature_pos_col(df)),
        week     |-> week_of(df, i),
        td_total |-> td_total(df, df.rows[i]),
        opps     |-> opps(df, df.rows[i])]]

\* the names of the model, each list in sorting order
FeaturePlayers == <<"", "A", "B">>

FeatureTeams == <<"", "<NA>", "KC", "SF">>

FeaturePositions == <<"", "RB">>

\* every (player, team, position) key in the order groupby sorts them
FeatureKeys ==
    [i \in 1..(Len(FeaturePlayers) * Len(FeatureTeams) * Len(FeaturePositions)) |->
       <<FeaturePlayers[((i - 1) \div (Len(FeatureTeams) * Len(FeaturePositions))) + 1],
         FeatureTeams[(((i - 1) \div Len(FeaturePositions)) % Len(FeatureTeams)) + 1],
         FeaturePositions[((i - 1) % Len(FeaturePositions)) + 1]>>]

feature_key(r) == <<r.player, r.team, r.position>>

key_rows(f, key) == SelectSeq(f, LAMBDA r : feature_key(r) = key)

player_rows(f, p) == SelectSeq(f, LAMBDA r : r.player = p)

\* Series.nunique(): the distinct values, NaN not counted
nunique_weeks(rows) ==
    Int2Num(Cardinality({rows[i].week : i \in DOMAIN rows} \ {NaN}))

\* (s >= 2).sum()
two_plus_of(rows) ==
    Int2Num(Len(SelectSeq(rows, LAMBDA r : Ge(r.td_total, Int2Num(2)))))

mean_td_of(rows) == SeriesMean([i \in DOMAIN rows |-> rows[i].td_total])

\* sort_values puts a week before another when it is smaller, NaN last
week_before(a, b) == ~IsNaN(a) /\ (IsNaN(b) \/ Lt(a, b))

\* df.sort_values(["player", week_col]) within one player: a stable sort
RECURSIVE sort_weeks(_)
sort_weeks(rows) ==
    IF rows = <<>> THEN <<>>
    ELSE SelectSeq(sort_weeks(Tail(rows)),
                   LAMBDA r : week_before(r.week, Head(rows).week))
         \o <<Head(rows)>>
         \o SelectSeq(sort_weeks(Tail(rows)),
                      LAMBDA r : ~week_before(r.week, Head(rows).week))

\* recent_window of compute_td_rate
recent_window == 4

\* the last k elements of a sequence, all of them when it is shorter
last_k(s, k) == SubSeq(s, IF Len(s) > k THEN Len(s) - k + 1 ELSE 1, Len(s))

\* rolling(min_periods=1, window=recent_window).mean() at the player's last row
rolling_last(rows) ==
    SeriesMean([i \in DOMAIN last_k(rows, recent_window) |->
                  last_k(rows, recent_window)[i].opps])

last_recent(f, p) == rolling_last(sort_weeks(player_rows(f, p)))

\* one row of out: agg merged with last_recent on player, NaN filled
td_rate_row(f, key) ==
    [c \in {"player", "team", "position", "games", "two_plus", "mean_td",
            "recent_opps"} |->
       CASE c = "player"      -> key[1]
         [] c = "team"        -> key[2]
         [] c = "position"    -> key[3]
         [] c = "games"       -> fillna(nunique_weeks(key_rows(f, key)), Int2Num(1))
         [] c = "two_plus"    -> two_plus_of(key_rows(f, key))
         [] c = "mean_td"     -> fillna(mean_td_of(key_rows(f, key)), Int2Num(0))
         [] c = "recent_opps" -> fillna(last_recent(f, key[1]), Int2Num(0))]

present_keys(f) ==
    SelectSeq(FeatureKeys, LAMBDA k : \E i \in DOMAIN f : feature_key(f[i]) = k)

td_rate_table(f) ==
    [status |-> "ok",
     cols |-> <<"player", "team", "position", "games", "two_plus", "mean_td",
                "recent_opps">>,
     rows |-> [i \in DOMAIN present_keys(f) |-> td_rate_row(f, present_keys(f)[i])]]

compute_td_rate(weekly) ==
    IF feature_player_col(weekly) = ""
    THEN KeyError("player", <<"player", "player_display_name", "full_name", "name">>)
    ELSE td_rate_table(td_frame(weekly))

\* _nz_float: as _nz_int, the sum kept as a float
nz_float(df, r, colnames) ==
    nz_to(r, SelectSeq(colnames, LAMBDA c : HasCol(df, c)),
          Len(SelectSeq(colnames, LAMBDA c : HasCol(df, c))))

\* the working frame of compute_sack_features
sack_frame(df) ==
    [i \in DOMAIN df.rows |->
       [player   |-> df.rows[i][feature_player_col(df)],
        team     |-> str_or_blank(df.rows[i], feature_team_col(df)),
        opponent |-> str_or_blank(df.rows[i], feature_opp_col(df)),
        position |-> str_or_blank(df.rows[i], feature_pos_col(df)),
        week     |-> week_of(df, i),
        pressures |-> nz_float(df, df.rows[i], <<"pressures", "qb_hits", "def_pressures">>),
        prwin    |-> Clip(nz_float(df, df.rows[i],
                                   <<"prwin", "pass_rush_win_rate", "prwin_pct">>),
                          Int2Num(0), Int2Num(1)),
        pass_rush_snaps |->
            nz_float(df, df.rows[i], <<"pass_rushes", "pass_rush_snaps", "prsnaps">>)]]

FeatureOpponents == <<"", "KC", "SF">>

\* every (player, team, opponent, position) key in groupby order
SackKeys ==
    [i \in 1..(Len(FeaturePlayers) * Len(FeatureTeams) * Len(FeatureOpponents)
                * Len(FeaturePositions)) |->
       <<FeaturePlayers[((i - 1) \div (Len(FeatureTeams) * Len(FeatureOpponents)
                                        * Len(FeaturePositions))) + 1],
         FeatureTeams[(((i - 1) \div (Len(FeatureOpponents) * Len(FeaturePositions)))
                       % Len(FeatureTeams)) + 1],
         FeatureOpponents[(((i - 1) \div Len(FeaturePositions))
                           % Len(FeatureOpponents)) + 1],
         FeaturePositions[((i - 1) % Len(FeaturePositions)) + 1]>>]

sack_key(r) == <<r.player, r.team, r.opponent, r.position>>

sack_rows(f, key) == SelectSeq(f, LAMBDA r : sack_key(r) = key)

\* agg["pressures"] / agg["games"].clip(lower=1)
pressures_per_game(rows) ==
    Div(SeriesSum([i \in DOMAIN rows |-> rows[i].pressures]),
        ClipLower(nunique_weeks(rows), Int2Num(1)))

\* team_rates[c].mean() if not team_rates.empty else the league constant
league_rate(team_rates, c, default) ==
    IF team_rates = <<>> THEN default
    ELSE SeriesMean([i \in DOMAIN team_rates |-> team_rates[i][c]])

\* the left merge on opponent = team, then fillna with the league value
opponent_rate(team_rates, opponent, c, default) ==
    IF \E i \in DOMAIN team_rates : team_rates[i].team = opponent
    THEN fillna((CHOOSE t \in Range(team_rates) : t.team = opponent)[c],
                league_rate(team_rates, c, default))
    ELSE league_rate(team_rates, c, default)

sack_feature_row(f, team_rates, key) ==
    [c \in {"player", "team", "opponent", "position", "pressures_per_game",
            "prwin", "pass_rush_snaps", "opp_dropbacks", "opp_sack_rate_allowed"} |->
       CASE c = "player"   -> key[1]
         [] c = "team"     -> key[2]
         [] c = "opponent" -> key[3]
         [] c = "position" -> key[4]
         [] c = "pressures_per_game" -> pressures_per_game(sack_rows(f, key))
         [] c = "prwin" ->
              SeriesMean([i \in DOMAIN sack_rows(f, key) |-> sack_rows(f, key)[i].prwin])
         [] c = "pass_rush_snaps" ->
              SeriesSum([i \in DOMAIN sack_rows(f, key) |->
                           sack_rows(f, key)[i].pass_rush_snaps])
         [] c = "opp_dropbacks" ->
              opponent_rate(team_rates, key[3], "dropbacks_per_game", Int2Num(35))
         [] c = "opp_sack_rate_allowed" ->
              opponent_rate(team_rates, key[3], "sack_rate", Rat(7, 100))]

present_sack_keys(f) ==
    SelectSeq(SackKeys, LAMBDA k : \E i \in DOMAIN f : sack_key(f[i]) = k)

sack_feature_table(f, team_rates) ==
    [status |-> "ok",
     cols |-> <<"player", "team", "opponent", "position", "pressures_per_game",
                "prwin", "pass_rush_snaps", "opp_dropbacks", "opp_sack_rate_allowed">>,
     rows |-> [i \in DOMAIN present_sack_keys(f) |->
                 sack_feature_row(f, team_rates, present_sack_keys(f)[i])]]

\* team_rates is what _team_dropback_sack_rates(season - 1) returned
compute_sack_features(weekly, team_rates) ==
    IF feature_player_col(weekly) = ""
    THEN KeyError("player", <<"player", "player_display_name", "full_name", "name">>)
    ELSE sack_feature_table(sack_frame(weekly), team_rates)

---------------------------------------------------------------------------
(* evaluation.py: the prediction log and its evaluation.  The log is a CSV *)
(* file: a sequence of lines, each the cells of a header or of a row in    *)
(* column order; reading it back names the cells by the first line.        *)

\* log_df: the table with the season, week and timestamp columns added
log_df(df, season, week, now) ==
    SetCol(SetCol(SetCol(df, "season", ConstCol(df, season)),
                  "week", ConstCol(df, week)),
           "timestamp", ConstCol(df, now))

csv_header(cols) == [kind |-> "header", cells |-> cols]

csv_line(cols, r) == [kind |-> "row", cells |-> [i \in DOMAIN cols |-> r[cols[i]]]]

csv_lines(df) == [i \in DOMAIN df.rows |-> csv_line(df.cols, df.rows[i])]

\* a slip: the file opened with mode "w"
to_csv_overwrite(file, df) ==
    [exists |-> TRUE,
     lines  |-> (IF file.exists THEN <<>> ELSE <<csv_header(df.cols)>>)
                \o csv_lines(df)]

\* log_df.to_csv(path, mode="a", header=not path.exists(), index=False)
to_csv_append(file, df) ==
    [exists |-> TRUE,
     lines  |-> file.lines
                \o (IF file.exists THEN <<>> ELSE <<csv_header(df.cols)>>)
                \o csv_lines(df)]

record_predictions(file, df, season, week, now) ==
    to_csv_append(file, log_df(df, season, week, now))

col_index(cols, c) == CHOOSE i \in DOMAIN cols : cols[i] = c

\* pd.read_csv(path): the first line names the columns of the others
read_csv(file) ==
    [cols |-> Head(file.lines).cells,
     rows |-> [i \in 1..(Len(file.lines) - 1) |->
                 [c \in Range(Head(file.lines).cells) |->
                    file.lines[i + 1].cells[col_index(Head(file.lines).cells, c)]]]]

\* preds[(preds["season"] == season) & (preds["week"] == week)]
preds_of(file, season, week) ==
    SelectSeq(read_csv(file).rows,
              LAMBDA r : r["season"] = season /\ r["week"] = week)

\* pd.to_numeric(weekly.get(c, 0), errors="coerce").fillna(0)
get_or_zero(weekly, r, c) ==
    IF HasCol(weekly, c) THEN fillna(r[c], Int2Num(0)) ELSE Int2Num(0)

\* weekly.assign(tds=...)[["player", "tds"]]
realized_tds(weekly) ==
    [i \in DOMAIN weekly.rows |->
       [player |-> weekly.rows[i]["player"],
        tds    |-> Add(get_or_zero(weekly, weekly.rows[i], "rushing_td"),
                       get_or_zero(weekly, weekly.rows[i], "receiving_td"))]]

\* the right rows of a left row's player
matches(pred, weekly) == SelectSeq(weekly, LAMBDA w : w.player = pred["player"])

\* a slip: how="inner", a left row without a right row is dropped
merged_inner(pred, weekly) ==
    [i \in DOMAIN matches(pred, weekly) |->
       [pred |-> pred, tds |-> matches(pred, weekly)[i].tds]]

\* how="left": a left row once per right row of its player, and once with
\* a missing tds when there is none
merged_left(pred, weekly) ==
    IF matches(pred, weekly) = <<>> THEN <<[pred |-> pred, tds |-> NaN]>>
    ELSE [i \in DOMAIN matches(pred, weekly) |->
            [pred |-> pred, tds |-> matches(pred, weekly)[i].tds]]

\* preds.merge(weekly, on="player", how="left"), the left rows in order
RECURSIVE left_merge(_, _)
left_merge(preds, weekly) ==
    IF preds = <<>> THEN <<>>
    ELSE merged_left(Head(preds), weekly) \o left_merge(Tail(preds), weekly)

\* merged["hit"] = merged["tds"] >= 2, tds with NaN filled by 0
hit_of(tds) == Ge(fillna(tds, Int2Num(0)), Int2Num(2))

\* r["stake_units"] * (r["odds"] - 1) if r["hit"] else -r["stake_units"]
profit_of(pred, hit) ==
    IF hit THEN Mul(pred["stake_units"], Sub(pred["odds"], Int2Num(1)))
    ELSE Neg(pred["stake_units"])

\* (model_prob - hit.astype(float)) ** 2
brier_of(pred, hit) ==
    Mul(Sub(pred["model_prob"], IF hit THEN Int2Num(1) ELSE Int2Num(0)),
        Sub(pred["model_prob"], IF hit THEN Int2Num(1) ELSE Int2Num(0)))

scored(m) ==
    [pred   |-> m.pred,
     tds    |-> fillna(m.tds, Int2Num(0)),
     hit    |-> hit_of(m.tds),
     profit |-> profit_of(m.pred, hit_of(m.tds)),
     brier  |-> brier_of(m.pred, hit_of(m.tds))]

scored_rows(merged) == [i \in DOMAIN merged |-> scored(merged[i])]

\* profit.sum() / stake_units.sum() if stake_units.sum() else 0.0
roi_of(rows) ==
    IF Eq(SeriesSum([i \in DOMAIN rows |-> rows[i].pred["stake_units"]]), Int2Num(0))
    THEN Int2Num(0)
    ELSE Div(SeriesSum([i \in DOMAIN rows |-> rows[i].profit]),
             SeriesSum([i \in DOMAIN rows |-> rows[i].pred["stake_units"]]))

\* the empty metrics {}
NoMetrics == [given |-> FALSE]

metrics_of(rows) ==
    [given    |-> TRUE,
     n        |-> Len(rows),
     hit_rate |-> Div(Int2Num(Len(SelectSeq(rows, LAMBDA r : r.hit))),
                      Int2Num(Len(rows))),
     roi      |-> roi_of(rows),
     brier    |-> SeriesMean([i \in DOMAIN rows |-> rows[i].brier])]

evaluated(merged) ==
    [status |-> "ok", rows |-> scored_rows(merged),
     metrics |-> metrics_of(scored_rows(merged))]

\* weekly is what load_weekly_player_stats(season, week=week) returned
evaluate_predictions(file, season, week, weekly) ==
    IF ~file.exists \/ preds_of(file, season, week) = <<>>
    THEN [status |-> "ok", rows |-> <<>>, metrics |-> NoMetrics]
    ELSE evaluated(left_merge(preds_of(file, season, week), realized_tds(weekly)))

---------------------------------------------------------------------------
(* The staking specification: a table is given to add_edge_and_stake.      *)

\* the largest number of rows of a table
MaxRows == 2

\* model probabilities of the rows (0 and 1 are the values the clip moves)
StakeProbs == {Rat(0, 1), Rat(2, 5), Rat(1, 2), Rat(1, 1)}

\* American prices of the rows; 50 is a price no book quotes, for which
\* american_to_decimal falls back to 1.0
StakePrices == {-500, 50, 150}

\* kelly_fraction and unit_size as the command line passes them (any float)
KellyFractions == {Rat(-1, 2), Rat(1, 2), Rat(1, 1)}

UnitSizes == {Rat(1, 1), Rat(10, 1)}

\* the layouts of the table:
\*   american  model_prob and an American price (a caller's own table)
\*   pipeline  model_prob joined with normalize_book_odds' odds, implied_prob
\*   decimal   model_prob and decimal odds
\*   stale     a decimal column holding no number, and an American price
StakeLayouts == {"american", "pipeline", "decimal", "stale"}

StakeCols(layout) ==
    CASE layout = "american" -> <<"model_prob", "american">>
      [] layout = "pipeline" -> <<"model_prob", "odds", "implied_prob">>
      [] layout = "decimal"  -> <<"model_prob", "decimal">>
      [] layout = "stale"    -> <<"model_prob", "decimal", "american">>

StakeRow(layout, p, price) ==
    [c \in Range(StakeCols(layout)) |->
       CASE c = "model_prob"   -> p
         [] c = "american"     -> Int2Num(price)
         [] c = "odds"         -> Int2Num(price)
         [] c = "implied_prob" -> american_to_implied(Int2Num(price))
         [] c = "decimal"      -> IF layout = "stale" THEN NaN
                                  ELSE american_to_decimal(Int2Num(price))]

StakeTables ==
    {[cols |-> StakeCols(l),
      rows |-> [i \in DOMAIN pp |-> StakeRow(l, pp[i][1], pp[i][2])]] :
        l \in StakeLayouts,
        pp \in UNION {[1..m -> StakeProbs \X StakePrices] : m \in 0..MaxRows}}

NoTable == [cols |-> <<>>, rows |-> <<>>]

NoArgs == [kelly_fraction |-> Int2Num(0), unit_size |-> Int2Num(0)]

NoResult == [status |-> "none"]

ModelIdle == feat_df = NoTable /\ model_df = NoTable /\ model_pc = "idle"

NoError == [at |-> "", exc |-> ""]

OddsIdle ==
    /\ odds_cmd = "" /\ odds_books = {} /\ odds_events = 0
    /\ odds_ev = 0 /\ odds_mk = 0 /\ odds_rows = <<>>
    /\ odds_error = NoError /\ odds_df = NoTable /\ odds_merged = NoResult
    /\ odds_pc = "idle"

NoWeek == [given |-> FALSE, n |-> 0]

LoadIdle ==
    /\ load_season = 0 /\ load_week = NoWeek /\ load_feed = <<>>
    /\ load_y = 0 /\ load_seen = <<>> /\ load_warnings = <<>>
    /\ load_out = NoResult /\ load_from = 0 /\ load_calls = 0
    /\ load_pc = "idle"

NoFile == [exists |-> FALSE, lines |-> <<>>]

NoRun == [op |-> "", rows |-> 0, before |-> 0]

WeeklyIdle ==
    /\ weekly_raw = NoTable /\ weekly_df = NoTable /\ weekly_via = ""
    /\ feats_out = NoResult /\ feats_pc = "idle"

LogIdle ==
    /\ log_file = NoFile /\ log_last = NoRun /\ eval_args = <<>>
    /\ eval_out = NoResult /\ log_pc = "idle"

FnIdle == fn_in = <<>> /\ fn_out = <<>> /\ fn_pc = "idle"

RestIdle == WeeklyIdle /\ LogIdle /\ FnIdle

StakeInit ==
    /\ stake_df \in StakeTables
    /\ stake_args = NoArgs
    /\ stake_out = NoResult
    /\ stake_pc = "start"
    /\ ModelIdle
    /\ OddsIdle
    /\ LoadIdle
    /\ RestIdle

\* staking.add_edge_and_stake(df, kelly_fraction=..., unit_size=...)
AddEdgeAndStake ==
    /\ stake_pc = "start"
    /\ \E kf \in KellyFractions, us \in UnitSizes :
          /\ stake_args' = [kelly_fraction |-> kf, unit_size |-> us]
          /\ stake_out' = add_edge_and_stake(stake_df, kf, us)
    /\ stake_pc' = "done"
    /\ UNCHANGED <<stake_df, model_vars, odds_vars, load_vars, rest_vars>>

StakeNext == AddEdgeAndStake

SpecStake == StakeInit /\ [][StakeNext]_vars

---------------------------------------------------------------------------
(* The model specification: a feature table is given to one of the two     *)
(* probability models, the result is joined with a price per player as     *)
(* report and sacks do, and staked.                                        *)

\* the largest number of players of a feature table
MaxPlayers == 2

\* compute_td_rate's features: games, two_plus (at most games), mean_td
TdFeatures ==
    {f \in [games : {0, 10}, two_plus : {0, 2}, mean_td : {Rat(1, 5), Rat(1, 1), Rat(3, 1)}] :
       f.two_plus <= f.games}

\* compute_sack_features' features; pass_rush_snaps is a sum that is 0 for
\* a defender with no pass-rush snap (or no such column in the weekly data)
SackFeatures ==
    [pressures_per_game : {0, 2}, pass_rush_snaps : {0, 20}, prwin : {Rat(0, 1), Rat(1, 2)}]

TdFeatureRow(name, f) ==
    [c \in {"player", "games", "two_plus", "mean_td"} |->
       CASE c = "player"   -> name
         [] c = "games"    -> Int2Num(f.games)
         [] c = "two_plus" -> Int2Num(f.two_plus)
         [] c = "mean_td"  -> f.mean_td]

\* opponent context as compute_sack_features fills it: 40 dropbacks per game
\* and a sack rate of 10%
SackFeatureRow(name, f) ==
    [c \in {"player", "pressures_per_game", "pass_rush_snaps", "prwin",
            "opp_dropbacks", "opp_sack_rate_allowed"} |->
       CASE c = "player"                -> name
         [] c = "pressures_per_game"    -> Int2Num(f.pressures_per_game)
         [] c = "pass_rush_snaps"       -> Int2Num(f.pass_rush_snaps)
         [] c = "prwin"                 -> f.prwin
         [] c = "opp_dropbacks"         -> Int2Num(40)
         [] c = "opp_sack_rate_allowed" -> Rat(1, 10)]

TdFeatureTables ==
    {[cols |-> <<"player", "games", "two_plus", "mean_td">>,
      rows |-> [i \in DOMAIN ff |-> TdFeatureRow(PlayerNames[i], ff[i])]] :
        ff \in UNION {[1..m -> TdFeatures] : m \in 0..MaxPlayers}}

SackFeatureTables ==
    {[cols |-> <<"player", "pressures_per_game", "pass_rush_snaps", "prwin",
                 "opp_dropbacks", "opp_sack_rate_allowed">>,
      rows |-> [i \in DOMAIN ff |-> SackFeatureRow(PlayerNames[i], ff[i])]] :
        ff \in UNION {[1..m -> SackFeatures] : m \in 0..MaxPlayers}}

\* the prices quoted for the players of the report
QuotedPrices == {-500, 150}

ModelInit ==
    /\ feat_df \in TdFeatureTables \cup SackFeatureTables
    /\ model_df = NoTable
    /\ model_pc = "start"
    /\ stake_df = NoTable
    /\ stake_args = NoArgs
    /\ stake_out = NoResult
    /\ stake_pc = "idle"
    /\ OddsIdle
    /\ LoadIdle
    /\ RestIdle

\* model.add_model_probability(feats)
AddModelProbability ==
    /\ model_pc = "start"
    /\ HasCol(feat_df, "mean_td")
    /\ model_df' = add_model_probability(feat_df)
    /\ model_pc' = "td"
    /\ UNCHANGED <<feat_df, stake_vars, odds_vars, load_vars, rest_vars>>

\* model.add_sack_model_probability(feats)
AddSackModelProbability ==
    /\ model_pc = "start"
    /\ HasCol(feat_df, "pass_rush_snaps")
    /\ model_df' = add_sack_model_probability(feat_df)
    /\ model_pc' = "sack"
    /\ UNCHANGED <<feat_df, stake_vars, odds_vars, load_vars, rest_vars>>

\* the model rows joined with the normalized odds table (player, odds,
\* implied_prob), every player being quoted
quoted_table(df, price) ==
    [cols |-> <<"player", "model_prob", "odds", "implied_prob">>,
     rows |-> [i \in DOMAIN df.rows |->
                 [c \in {"player", "model_prob", "odds", "implied_prob"} |->
                    CASE c = "odds"         -> Int2Num(price[i])
                      [] c = "implied_prob" -> american_to_implied(Int2Num(price[i]))
                      [] OTHER              -> df.rows[i][c]]]]

\* cli: merged = filtered.merge(odds_df, on="player")
MergeOdds ==
    /\ model_pc \in {"td", "sack"}
    /\ stake_pc = "idle"
    /\ \E price \in [DOMAIN model_df.rows -> QuotedPrices] :
          stake_df' = quoted_table(model_df, price)
    /\ stake_pc' = "start"
    /\ UNCHANGED <<stake_args, stake_out, model_vars, odds_vars, load_vars, rest_vars>>

ModelNext ==
    \/ AddModelProbability
    \/ AddSackModelProbability
    \/ MergeOdds
    \/ AddEdgeAndStake

SpecModel == ModelInit /\ [][ModelNext]_vars

---------------------------------------------------------------------------
(* The odds specification: report / sacks list the week's events, look up  *)
(* each event's candidate markets, normalize the rows collected and join   *)
(* them with the model rows (cli.py, lines 105-108 and 206-209).           *)

\* the largest number of events of a week
MaxEvents == 2

\* the --books filter: none, or one book
BookFilters == {{}, {"fd"}}

\* a line point the market accepts, in 1/100
LinePoint(market) ==
    CASE market = "player_tds_over"                     -> 150
      [] market = "player_rush_reception_tds_alternate" -> 200
      [] OTHER                                          -> 50

Outcome(book, key, participant, price, point) ==
    [book |-> book, key |-> key, name |-> "Over", participant |-> participant,
     priced |-> TRUE, price |-> price, pointed |-> TRUE, point |-> point,
     keyword |-> FALSE]

\* the outcome lists the feed may answer a lookup of `market` with:
\* no bookmaker; one quote; two books quoting A at the same implied
\* probability (+100 and -100) and B; quotes of which one is off the line;
\* outcomes without a price, of another market, naming nobody, one with
\* the keyword in its text instead of a line point, two books spelling
\* the name of player A differently ("A" and "a."), and a book listing both
\* sides of player B's line, Over at -300 and Under at +220
Replies(market) ==
    {<<>>,
     <<Outcome("fd", market, "A", 150, LinePoint(market))>>,
     <<Outcome("dk", market, "A", 100, LinePoint(market)),
       Outcome("fd", market, "A", -100, LinePoint(market)),
       Outcome("dk", market, "B", 300, LinePoint(market))>>,
     <<Outcome("fd", market, "B", 250, LinePoint(market)),
       Outcome("dk", market, "A", 200, LinePoint(market)),
       Outcome("fd", market, "A", 120, LinePoint(market) + 100)>>,
     <<[Outcome("fd", market, "A", 0, LinePoint(market)) EXCEPT !.priced = FALSE],
       Outcome("fd", "h2h", "A", 110, LinePoint(market)),
       Outcome("fd", market, "", 130, LinePoint(market))>>,
     <<[Outcome("dk", market, "C", 400, 0) EXCEPT !.pointed = FALSE, !.keyword = TRUE]>>,
     <<Outcome("dk", market, "A", 150, LinePoint(market)),
       Outcome("fd", market, "a.", 120, LinePoint(market))>>,
     <<Outcome("fd", market, "B", -300, LinePoint(market)),
       [Outcome("fd", market, "B", 220, LinePoint(market)) EXCEPT !.name = "Under"]>>}

\* statuses of an answer the loop skips without raising
UnsupportedStatuses == {404, 422}

\* statuses for which raise_for_status raises requests.HTTPError
ErrorStatuses == {401, 429, 500}

\* exceptions of a request that are not requests.HTTPError
RequestFailures == {"Timeout", "ConnectionError", "JSONDecodeError"}

\* the model rows left after apply_filters
FilteredTables ==
    {[cols |-> <<"player", "model_prob">>, rows |-> <<>>],
     [cols |-> <<"player", "model_prob">>,
      rows |-> <<[player |-> "A", model_prob |-> Rat(1, 4)],
                 [player |-> "D", model_prob |-> Rat(1, 10)]>>]}

StakeIdle ==
    stake_df = NoTable /\ stake_args = NoArgs /\ stake_out = NoResult /\ stake_pc = "idle"

OddsInit ==
    /\ odds_cmd \in {"two_td", "sack"}
    /\ odds_books \in BookFilters
    /\ odds_events = 0 /\ odds_ev = 0 /\ odds_mk = 0 /\ odds_rows = <<>>
    /\ odds_error = NoError /\ odds_df = NoTable /\ odds_merged = NoResult
    /\ odds_pc = "start"
    /\ StakeIdle
    /\ ModelIdle
    /\ LoadIdle
    /\ RestIdle

\* events = self._events_for_week(season, week); rows = []
EventsForWeek ==
    /\ odds_pc = "start"
    /\ \E n \in 0..MaxEvents :
          /\ odds_events' = n
          /\ odds_ev' = IF n = 0 THEN 0 ELSE 1
          /\ odds_mk' = IF n = 0 THEN 0 ELSE 1
          /\ odds_pc' = IF n = 0 THEN "fetched" ELSE "fetching"
    /\ UNCHANGED <<odds_cmd, odds_books, odds_rows, odds_error, odds_df, odds_merged,
                   stake_vars, model_vars, load_vars, rest_vars>>

\* _events_for_week: the listing request fails, or resp.raise_for_status() raises
EventsUnavailable ==
    /\ odds_pc = "start"
    /\ \E exc \in RequestFailures \cup {"HTTPError"} :
          odds_error' = [at |-> "events", exc |-> exc]
    /\ odds_pc' = "raised"
    /\ UNCHANGED <<odds_cmd, odds_books, odds_events, odds_ev, odds_mk, odds_rows,
                   odds_df, odds_merged, stake_vars, model_vars, load_vars, rest_vars>>

\* a loop without the break: every market of the event is looked up
try_every_market(ev, mk, n, got_any) ==
    IF mk < 2 THEN [ev |-> ev, mk |-> mk + 1, pc |-> "fetching"]
    ELSE IF ev < n THEN [ev |-> ev + 1, mk |-> 1, pc |-> "fetching"]
    ELSE [ev |-> ev, mk |-> mk, pc |-> "fetched"]

\* where the loops are after the lookup of market mk of event ev: the next
\* market if this one gave no row, else the next event, else the return
after_lookup(ev, mk, n, got_any) ==
    IF ~got_any /\ mk < 2 THEN [ev |-> ev, mk |-> mk + 1, pc |-> "fetching"]
    ELSE IF ev < n THEN [ev |-> ev + 1, mk |-> 1, pc |-> "fetching"]
    ELSE [ev |-> ev, mk |-> mk, pc |-> "fetched"]

\* a lookup that adds no row: `continue`
LookupSkipped ==
    /\ odds_ev' = after_lookup(odds_ev, odds_mk, odds_events, FALSE).ev
    /\ odds_mk' = after_lookup(odds_ev, odds_mk, odds_events, FALSE).mk
    /\ odds_pc' = after_lookup(odds_ev, odds_mk, odds_events, FALSE).pc
    /\ UNCHANGED <<odds_cmd, odds_books, odds_events, odds_rows, odds_error,
                   odds_df, odds_merged, stake_vars, model_vars, load_vars, rest_vars>>

\* if r.status_code in (404, 422): continue
LookupUnsupported ==
    /\ odds_pc = "fetching"
    /\ \E status \in UnsupportedStatuses : LookupSkipped

\* r.raise_for_status() raises; except requests.HTTPError: continue
LookupHttpError ==
    /\ odds_pc = "fetching"
    /\ \E status \in ErrorStatuses : LookupSkipped

\* self.http.get(...) or r.json() raises an exception that is not a
\* requests.HTTPError: nothing catches it and it leaves the fetch
LookupAborted ==
    /\ odds_pc = "fetching"
    /\ \E exc \in RequestFailures :
          odds_error' = [at |-> "lookup", exc |-> exc]
    /\ odds_pc' = "raised"
    /\ UNCHANGED <<odds_cmd, odds_books, odds_events, odds_ev, odds_mk, odds_rows,
                   odds_df, odds_merged, stake_vars, model_vars, load_vars, rest_vars>>

\* the rows of the accepted outcomes are appended
answered(reply) ==
    /\ odds_rows' = odds_rows \o lookup_rows(odds_cmd, market_order(odds_cmd)[odds_mk],
                                             odds_books, odds_ev, reply)
    /\ odds_ev' = after_lookup(odds_ev, odds_mk, odds_events,
                               odds_rows' # odds_rows).ev
    /\ odds_mk' = after_lookup(odds_ev, odds_mk, odds_events,
                               odds_rows' # odds_rows).mk
    /\ odds_pc' = after_lookup(odds_ev, odds_mk, odds_events,
                               odds_rows' # odds_rows).pc

\* the lookup is answered with status 200 and a JSON body
LookupAnswered ==
    /\ odds_pc = "fetching"
    /\ \E reply \in Replies(market_order(odds_cmd)[odds_mk]) : answered(reply)
    /\ UNCHANGED <<odds_cmd, odds_books, odds_events, odds_error, odds_df,
                   odds_merged, stake_vars, model_vars, load_vars, rest_vars>>

\* odds_df = odds.normalize_book_odds(rows)
NormalizeBookOdds ==
    /\ odds_pc = "fetched"
    /\ odds_cmd = "two_td"
    /\ odds_df' \in normalize_book_odds(odds_rows)
    /\ odds_pc' = "normalized"
    /\ UNCHANGED <<odds_cmd, odds_books, odds_events, odds_ev, odds_mk, odds_rows,
                   odds_error, odds_merged, stake_vars, model_vars, load_vars, rest_vars>>

\* odds_df = odds.normalize_sack_odds(rows)
NormalizeSackOdds ==
    /\ odds_pc = "fetched"
    /\ odds_cmd = "sack"
    /\ odds_df' \in normalize_sack_odds(odds_rows)
    /\ odds_pc' = "normalized"
    /\ UNCHANGED <<odds_cmd, odds_books, odds_events, odds_ev, odds_mk, odds_rows,
                   odds_error, odds_merged, stake_vars, model_vars, load_vars, rest_vars>>

\* the rows of an inner join: the left rows in order, each with the right
\* rows of the same key
RECURSIVE merge_rows(_, _, _)
merge_rows(l, r, on) ==
    IF l = <<>> THEN <<>>
    ELSE [i \in DOMAIN SelectSeq(r, LAMBDA x : x[on] = Head(l)[on]) |->
            Head(l) @@ SelectSeq(r, LAMBDA x : x[on] = Head(l)[on])[i]]
         \o merge_rows(Tail(l), r, on)

\* left.merge(right, on=key): KeyError when a side has no such column
merge(left, right, on) ==
    IF ~HasCol(left, on) \/ ~HasCol(right, on) THEN KeyError(on, <<>>)
    ELSE [status |-> "ok",
          cols |-> left.cols \o SelectSeq(right.cols, LAMBDA c : c # on),
          rows |-> merge_rows(left.rows, right.rows, on)]

\* merged = filtered.merge(odds_df, on="player")
MergeOnPlayer ==
    /\ odds_pc = "normalized"
    /\ \E filtered \in FilteredTables : odds_merged' = merge(filtered, odds_df, "player")
    /\ odds_pc' = "merged"
    /\ UNCHANGED <<odds_cmd, odds_books, odds_events, odds_ev, odds_mk, odds_rows,
                   odds_error, odds_df, stake_vars, model_vars, load_vars, rest_vars>>

OddsNext ==
    \/ EventsForWeek
    \/ EventsUnavailable
    \/ LookupUnsupported
    \/ LookupHttpError
    \/ LookupAborted
    \/ LookupAnswered
    \/ NormalizeBookOdds
    \/ NormalizeSackOdds
    \/ MergeOnPlayer

SpecOdds == OddsInit /\ [][OddsNext]_vars

---------------------------------------------------------------------------
(* The loader specification: load_weekly_player_stats(season, week) asks   *)
(* the stats feed for the requested season, then for the prior seasons,    *)
(* then builds the stats from play-by-play; a later call with the same     *)
(* arguments is answered from the lru_cache.                               *)

\* the largest number of calls with the same arguments
MaxCalls == 2

\* the --season of the run
RequestedSeason == 2025

\* the --week of the run, or no week
RequestedWeeks == {NoWeek, [given |-> TRUE, n |-> 2]}

\* what the feed holds for a prior season: a published non-empty table
\* ("data"), nothing usable ("none": unpublished, empty, or a load that
\* fails otherwise), or a server that answers with an HTTP error ("broken")
FeedKinds == {"data", "none", "broken"}

\* the seasons the feed is described for: one more than the loader looks at
FeedSeasons == (RequestedSeason - max_back - 1)..(RequestedSeason - 1)

\* the weekly table of season y as nflverse publishes it
PublishedFrame(y) ==
    [cols |-> <<"player_display_name", "recent_team", "season", "week",
                "rushing_tds", "receiving_tds", "carries", "targets">>,
     rows |-> [i \in 1..3 |->
                 [c \in {"player_display_name", "recent_team", "season", "week",
                         "rushing_tds", "receiving_tds", "carries", "targets"} |->
                    CASE c = "player_display_name" -> IF i = 3 THEN "B" ELSE "A"
                      [] c = "recent_team"         -> IF i = 3 THEN "SF" ELSE "KC"
                      [] c = "season"              -> Int2Num(y)
                      [] c = "week"                -> Int2Num(IF i = 2 THEN 2 ELSE 1)
                      [] c = "rushing_tds"         -> Int2Num(IF i = 1 THEN 2 ELSE 0)
                      [] c = "receiving_tds"       -> Int2Num(IF i = 3 THEN 1 ELSE 0)
                      [] c = "carries"             -> Int2Num(10)
                      [] c = "targets"             -> Int2Num(i)]]]

\* the same table under a schema without the season column
BareFrame(y) ==
    Project(PublishedFrame(y).rows,
            <<"player_display_name", "recent_team", "week", "rushing_tds",
              "receiving_tds", "carries", "targets">>)

\* a published table without rows
EmptyFrame(y) == [cols |-> PublishedFrame(y).cols, rows |-> <<>>]

WeeklyFrames(y) == {PublishedFrame(y), BareFrame(y)}

\* the play-by-play tables import_pbp_data may return: no play, or a rush
\* for a touchdown, a complete pass and a play naming nobody
PbpCols ==
    <<"rusher_player_name", "receiver_player_name", "posteam", "week",
      "rush_attempt", "rush_touchdown", "pass_attempt", "pass_touchdown">>

Play(rusher, receiver, week, rush_td, pass_td) ==
    [c \in Range(PbpCols) |->
       CASE c = "rusher_player_name"   -> rusher
         [] c = "receiver_player_name" -> receiver
         [] c = "posteam"              -> "KC"
         [] c = "week"                 -> Int2Num(week)
         [] c = "rush_attempt"         -> Int2Num(IF rusher = NA THEN 0 ELSE 1)
         [] c = "rush_touchdown"       -> Int2Num(rush_td)
         [] c = "pass_attempt"         -> Int2Num(IF receiver = NA THEN 0 ELSE 1)
         [] c = "pass_touchdown"       -> Int2Num(pass_td)]

PbpFrames ==
    {[cols |-> PbpCols, rows |-> <<>>],
     [cols |-> PbpCols,
      rows |-> <<Play("A", NA, 2, 1, 0), Play(NA, "B", 2, 0, 0),
                 Play("A", NA, 1, 0, 0), Play(NA, "A", 2, 0, 1),
                 Play(NA, NA, 2, 0, 0)>>]}

\* the exceptions of a load that are not an HTTPError
LoadFailures == {"ConnectionError", "ValueError"}

\* the codes of an HTTPError other than 404
ErrorCodes == {500, 503}

Returned(df) == [status |-> "ok", cols |-> df.cols, rows |-> df.rows]

LoadInit ==
    /\ load_season = RequestedSeason
    /\ load_week \in RequestedWeeks
    /\ load_feed \in [FeedSeasons -> FeedKinds]
    /\ load_y = 0
    /\ load_seen = <<>>
    /\ load_warnings = <<>>
    /\ load_out = NoResult
    /\ load_from = 0
    /\ load_calls = 1
    /\ load_pc = "primary"
    /\ StakeIdle
    /\ ModelIdle
    /\ OddsIdle
    /\ RestIdle

\* import_weekly_data(years=[season]) returns a table, with rows or without
PrimaryLoaded ==
    /\ load_pc = "primary"
    /\ \E df \in WeeklyFrames(load_season) \cup {EmptyFrame(load_season)} :
          /\ load_out' = Returned(loaded(df, load_week))
          /\ load_seen' = <<IF df.rows = <<>> THEN "empty" ELSE "frame">>
    /\ load_from' = load_season
    /\ load_pc' = "returned"
    /\ UNCHANGED <<load_season, load_week, load_feed, load_y, load_warnings,
                   load_calls, stake_vars, model_vars, odds_vars, rest_vars>>

\* it raises an HTTPError other than 404, which is re-raised
PrimaryRaised ==
    /\ load_pc = "primary"
    /\ \E code \in ErrorCodes : load_out' = [status |-> "HTTPError", code |-> code]
    /\ load_seen' = <<"5xx">>
    /\ load_pc' = "raised"
    /\ UNCHANGED <<load_season, load_week, load_feed, load_y, load_warnings,
                   load_from, load_calls, stake_vars, model_vars, odds_vars, rest_vars>>

\* it raises HTTPError 404 or another exception: on to the prior seasons
PrimaryUnavailable ==
    /\ load_pc = "primary"
    /\ \E answer \in {"404", "error"} : load_seen' = <<answer>>
    /\ load_y' = 1
    /\ load_pc' = "prior"
    /\ UNCHANGED <<load_season, load_week, load_feed, load_warnings, load_out,
                   load_from, load_calls, stake_vars, model_vars, odds_vars, rest_vars>>

\* the season the loop of _load_prior_season_weekly_any is at
prior_y == prior_seasons(load_season)[load_y]

\* the warning of the substitution
substitution_warning(season, prior) ==
    [kind |-> "substituted", season |-> season,
     prior_season |-> prior_season_of(prior, season)]

\* a prior season's table is not empty: it is returned, the warning is
\* emitted and the table, filtered and normalized, is the result
PriorLoaded ==
    /\ load_pc = "prior"
    /\ load_feed[prior_y] = "data"
    /\ \E prior \in WeeklyFrames(prior_y) :
          /\ load_warnings' = Append(load_warnings,
                                     substitution_warning(load_season, prior))
          /\ load_out' = Returned(loaded(prior, load_week))
    /\ load_seen' = Append(load_seen, "frame")
    /\ load_from' = prior_y
    /\ load_pc' = "returned"
    /\ UNCHANGED <<load_season, load_week, load_feed, load_y, load_calls,
                   stake_vars, model_vars, odds_vars, rest_vars>>

\* a prior season's table is empty, or its load raises HTTPError 404 or an
\* exception that is no HTTPError: the next season, or None after the last
PriorSkipped ==
    /\ load_pc = "prior"
    /\ load_feed[prior_y] = "none"
    /\ \E answer \in {"empty", "404", "error"} : load_seen' = Append(load_seen, answer)
    /\ load_y' = IF load_y < max_back THEN load_y + 1 ELSE 0
    /\ load_pc' = IF load_y < max_back THEN "prior" ELSE "pbp"
    /\ UNCHANGED <<load_season, load_week, load_feed, load_warnings, load_out,
                   load_from, load_calls, stake_vars, model_vars, odds_vars, rest_vars>>

\* a prior season's load raises an HTTPError other than 404: raise
PriorRaised ==
    /\ load_pc = "prior"
    /\ load_feed[prior_y] = "broken"
    /\ \E code \in ErrorCodes : load_out' = [status |-> "HTTPError", code |-> code]
    /\ load_seen' = Append(load_seen, "5xx")
    /\ load_pc' = "raised"
    /\ UNCHANGED <<load_season, load_week, load_feed, load_y, load_warnings,
                   load_from, load_calls, stake_vars, model_vars, odds_vars, rest_vars>>

\* the stats are built from the play-by-play of the requested season
PbpBuilt ==
    /\ load_pc = "pbp"
    /\ \E pbp \in PbpFrames :
          load_out' = Returned(normalize_weekly_columns(
                                 weekly_player_stats_from_pbp(pbp, load_week)))
    /\ load_from' = load_season
    /\ load_pc' = "returned"
    /\ UNCHANGED <<load_season, load_week, load_feed, load_y, load_seen,
                   load_warnings, load_calls, stake_vars, model_vars, odds_vars, rest_vars>>

\* the build raises: a warning, and an empty frame with the expected columns
PbpFailed ==
    /\ load_pc = "pbp"
    /\ \E exc \in LoadFailures \cup {"HTTPError"} :
          load_warnings' = Append(load_warnings,
                                  [kind |-> "pbp_failed", season |-> load_season,
                                   prior_season |-> 0])
    /\ load_out' = Returned([cols |-> expected_cols, rows |-> <<>>])
    /\ load_from' = load_season
    /\ load_pc' = "returned"
    /\ UNCHANGED <<load_season, load_week, load_feed, load_y, load_seen,
                   load_calls, stake_vars, model_vars, odds_vars, rest_vars>>

\* a later call with the same arguments: lru_cache returns the table of the
\* call that returned, without running the body
CachedCall ==
    /\ load_pc = "returned"
    /\ load_calls < MaxCalls
    /\ load_calls' = load_calls + 1
    /\ UNCHANGED <<load_season, load_week, load_feed, load_y, load_seen,
                   load_warnings, load_out, load_from, load_pc,
                   stake_vars, model_vars, odds_vars, rest_vars>>

\* a later call after one that raised: nothing is cached, the body runs again
CallAgain ==
    /\ load_pc = "raised"
    /\ load_calls < MaxCalls
    /\ load_calls' = load_calls + 1
    /\ load_y' = 0
    /\ load_seen' = <<>>
    /\ load_out' = NoResult
    /\ load_pc' = "primary"
    /\ UNCHANGED <<load_season, load_week, load_feed, load_warnings, load_from,
                   stake_vars, model_vars, odds_vars, rest_vars>>

LoadNext ==
    \/ PrimaryLoaded
    \/ PrimaryRaised
    \/ PrimaryUnavailable
    \/ PriorLoaded
    \/ PriorSkipped
    \/ PriorRaised
    \/ PbpBuilt
    \/ PbpFailed
    \/ CachedCall
    \/ CallAgain

SpecLoad == LoadInit /\ [][LoadNext]_vars

---------------------------------------------------------------------------
(* The features specification: a weekly table reaches compute_td_rate or   *)
(* compute_sack_features, either as the caller built it or through         *)
(* load_weekly_player_stats as report and sacks pass it (cli.py, lines     *)
(* 90-91 and 192-193).                                                     *)

\* the largest number of rows of a weekly table
MaxWeeklyRows == 2

\* the column layouts of the weekly table: the stats feed's own names, the
\* loader's names, a table that names no player, and pass-rush statistics
WeeklySchemas == {"nflverse", "canonical", "anonymous", "passrush"}

WeeklyCols(schema) ==
    CASE schema = "nflverse" ->
           <<"player_display_name", "recent_team", "position", "week",
             "rushing_tds", "receiving_tds", "carries", "targets">>
      [] schema = "canonical" ->
           <<"player", "team", "week", "rushing_td", "receiving_td",
             "rush_att", "targets">>
      [] schema = "anonymous" ->
           <<"recent_team", "week", "rushing_tds", "receiving_tds">>
      [] schema = "passrush" ->
           <<"player", "team", "opponent", "week", "pressures", "prwin",
             "pass_rush_snaps">>

\* one weekly row: its player, its week, and its rushing and receiving
\* touchdowns (on a pass-rush table, its pressures)
WeeklyRow(schema, player, week, rush, rec) ==
    [c \in Range(WeeklyCols(schema)) |->
       CASE c \in {"player_display_name", "player"} -> player
         [] c \in {"recent_team", "team"} -> IF player = "A" THEN "KC" ELSE "SF"
         [] c = "opponent" -> IF player = "A" THEN "SF" ELSE "KC"
         [] c = "position" -> "RB"
         [] c = "week" -> Int2Num(week)
         [] c \in {"rushing_tds", "rushing_td", "pressures"} -> Int2Num(rush)
         [] c \in {"receiving_tds", "receiving_td"} -> Int2Num(rec)
         [] c \in {"carries", "rush_att"} -> Int2Num(3)
         [] c = "targets" -> Int2Num(1)
         [] c = "prwin" -> Rat(1, 2)
         [] c = "pass_rush_snaps" -> Int2Num(10)]

WeeklyRows(schema) ==
    {WeeklyRow(schema, p, w, td[1], td[2]) :
       p \in {"A", "B"}, w \in {1, 2}, td \in {<<0, 0>>, <<1, 1>>, <<2, 0>>}}

WeeklyTables ==
    UNION {{[cols |-> WeeklyCols(schema), rows |-> rows] :
              rows \in UNION {[1..n -> WeeklyRows(schema)] : n \in 0..MaxWeeklyRows}} :
           schema \in WeeklySchemas}

\* what _team_dropback_sack_rates(season - 1) returns: no team when the
\* play-by-play is unavailable, else a row per team
TeamRates ==
    {<<>>,
     <<[team |-> "KC", dropbacks_per_game |-> Int2Num(30), sack_rate |-> Rat(1, 10)]>>}

FeaturesInit ==
    /\ weekly_raw \in WeeklyTables
    /\ weekly_df = NoTable
    /\ weekly_via = ""
    /\ feats_out = NoResult
    /\ feats_pc = "start"
    /\ StakeIdle
    /\ ModelIdle
    /\ OddsIdle
    /\ LoadIdle
    /\ LogIdle
    /\ FnIdle

other_than_weekly == <<stake_vars, model_vars, odds_vars, load_vars, log_vars, fn_vars>>

\* the caller hands its own weekly table to the feature computation
GivenDirectly ==
    /\ feats_pc = "start"
    /\ weekly_df' = weekly_raw
    /\ weekly_via' = "direct"
    /\ feats_pc' = "given"
    /\ UNCHANGED <<weekly_raw, feats_out, other_than_weekly>>

\* weekly = data.load_weekly_player_stats(season, week=week)
GivenByLoader ==
    /\ feats_pc = "start"
    /\ \E week \in RequestedWeeks : weekly_df' = loaded(weekly_raw, week)
    /\ weekly_via' = "loader"
    /\ feats_pc' = "given"
    /\ UNCHANGED <<weekly_raw, feats_out, other_than_weekly>>

\* feats = features.compute_td_rate(weekly)
ComputeTdRate ==
    /\ feats_pc = "given"
    /\ feats_out' = compute_td_rate(weekly_df)
    /\ feats_pc' = "td"
    /\ UNCHANGED <<weekly_raw, weekly_df, weekly_via, other_than_weekly>>

\* feats = features.compute_sack_features(weekly, season)
ComputeSackFeatures ==
    /\ feats_pc = "given"
    /\ \E team_rates \in TeamRates :
         feats_out' = compute_sack_features(weekly_df, team_rates)
    /\ feats_pc' = "sack"
    /\ UNCHANGED <<weekly_raw, weekly_df, weekly_via, other_than_weekly>>

FeaturesNext ==
    \/ GivenDirectly
    \/ GivenByLoader
    \/ ComputeTdRate
    \/ ComputeSackFeatures

SpecFeatures == FeaturesInit /\ [][FeaturesNext]_vars

---------------------------------------------------------------------------
(* The column-resolution specification: add_edge_and_stake is given a      *)
(* table whose probability or odds column goes by another name, or is      *)
(* missing.                                                                *)

\* the layouts of the table:
\*   alias     the probability under its alias p_two_td, an American price
\*   quotes    normalize_book_odds' odds and implied_prob, no model column
\*   prices    an American price alone
\*   unpriced  a model probability and no odds column
\*   usage     neither a probability nor an odds column
ColumnLayouts == {"alias", "quotes", "prices", "unpriced", "usage"}

ColumnCols(layout) ==
    CASE layout = "alias"    -> <<"p_two_td", "american">>
      [] layout = "quotes"   -> <<"odds", "implied_prob">>
      [] layout = "prices"   -> <<"american">>
      [] layout = "unpriced" -> <<"model_prob">>
      [] layout = "usage"    -> <<"recent_opps">>

ColumnRow(layout, p, price) ==
    [c \in Range(ColumnCols(layout)) |->
       CASE c \in {"p_two_td", "model_prob"} -> p
         [] c \in {"american", "odds"} -> Int2Num(price)
         [] c = "implied_prob" -> american_to_implied(Int2Num(price))
         [] c = "recent_opps" -> Int2Num(4)]

ColumnTables ==
    {[cols |-> ColumnCols(l),
      rows |-> [i \in DOMAIN pp |-> ColumnRow(l, pp[i][1], pp[i][2])]] :
        l \in ColumnLayouts,
        pp \in UNION {[1..m -> StakeProbs \X StakePrices] : m \in 0..MaxRows}}

ColumnsInit ==
    /\ stake_df \in ColumnTables
    /\ stake_args = NoArgs
    /\ stake_out = NoResult
    /\ stake_pc = "start"
    /\ ModelIdle
    /\ OddsIdle
    /\ LoadIdle
    /\ RestIdle

SpecColumns == ColumnsInit /\ [][StakeNext]_vars

---------------------------------------------------------------------------
(* The log specification: tables are recorded in the prediction log by     *)
(* record_predictions, the report and sacks commands run, and the log is   *)
(* evaluated against the realized weekly statistics.                       *)

\* the largest number of rows of a recorded table, and of rows in the log
MaxLogRows == 2

PredictionCols == <<"player", "odds", "decimal", "model_prob", "stake_units">>

\* a reported row: the player, the American price in odds as
\* normalize_book_odds names it, its decimal odds, and the stake
PredictionRow(player, price, p, stake) ==
    [c \in Range(PredictionCols) |->
       CASE c = "player"      -> player
         [] c = "odds"        -> Int2Num(price)
         [] c = "decimal"     -> american_to_decimal(Int2Num(price))
         [] c = "model_prob"  -> p
         [] c = "stake_units" -> stake]

PredictionRows ==
    {PredictionRow("A", 150, Rat(1, 2), Rat(1, 2)),
     PredictionRow("B", -200, Rat(3, 4), Rat(1, 4)),
     PredictionRow("C", 150, Rat(2, 5), Int2Num(0))}

PredictionTables ==
    {[cols |-> PredictionCols, rows |-> rows] :
       rows \in UNION {[1..n -> PredictionRows] : n \in 0..MaxLogRows}}

\* the (season, week) pairs of the runs recorded, and of the evaluation
RecordTags == {<<2025, 1>>, <<2024, 1>>}

EvalTags == RecordTags \cup {<<2025, 2>>}

\* pd.Timestamp.utcnow(): a clock that never runs backwards
Timestamps == {1, 2}

\* the raw weekly tables of the stats feed for the evaluated season:
\* nobody, player A with 2 or 1 + 1 touchdowns in week 1, or A listed twice
RealizedFeeds ==
    {[cols |-> WeeklyCols("canonical"), rows |-> rows] :
       rows \in {<<>>,
                 <<WeeklyRow("canonical", "A", 1, 2, 0)>>,
                 <<WeeklyRow("canonical", "A", 1, 1, 1)>>,
                 <<WeeklyRow("canonical", "A", 1, 2, 0),
                   WeeklyRow("canonical", "A", 1, 0, 0)>>}}

data_rows(file) == Len(SelectSeq(file.lines, LAMBDA l : l.kind = "row"))

\* the timestamp of the last row written, 0 in a log without rows
last_timestamp(file) ==
    IF data_rows(file) = 0 THEN 0
    ELSE read_csv(file).rows[Len(file.lines) - 1]["timestamp"]

LogInit ==
    /\ log_file = NoFile
    /\ log_last = NoRun
    /\ eval_args = <<>>
    /\ eval_out = NoResult
    /\ log_pc = "open"
    /\ StakeIdle
    /\ ModelIdle
    /\ OddsIdle
    /\ LoadIdle
    /\ WeeklyIdle
    /\ FnIdle

other_than_log == <<stake_vars, model_vars, odds_vars, load_vars, weekly_vars, fn_vars>>

\* record_predictions(df, season, week)
RecordPredictions ==
    /\ log_pc = "open"
    /\ \E df \in PredictionTables, tag \in RecordTags, now \in Timestamps :
         /\ data_rows(log_file) + Len(df.rows) <= MaxLogRows
         /\ now >= last_timestamp(log_file)
         /\ log_file' = record_predictions(log_file, df, tag[1], tag[2], now)
         /\ log_last' = [op |-> "record_predictions", rows |-> Len(df.rows),
                         before |-> data_rows(log_file)]
    /\ UNCHANGED <<eval_args, eval_out, log_pc, other_than_log>>

\* the report and sacks commands, run to their end with merged as the rows
\* displayed and exported: neither touches the log
ReportRun ==
    /\ log_pc = "open"
    /\ \E merged \in PredictionTables, cmd \in {"report", "sacks"} :
         log_last' = [op |-> cmd, rows |-> Len(merged.rows),
                      before |-> data_rows(log_file)]
    /\ UNCHANGED <<log_file, eval_args, eval_out, log_pc, other_than_log>>

\* evaluate_predictions(season, week)
EvaluatePredictions ==
    /\ log_pc = "open"
    /\ \E tag \in EvalTags, feed \in RealizedFeeds :
         /\ eval_args' = [season |-> tag[1], week |-> tag[2],
                          weekly |-> loaded(feed, [given |-> TRUE, n |-> tag[2]])]
         /\ eval_out' = evaluate_predictions(
                          log_file, tag[1], tag[2],
                          loaded(feed, [given |-> TRUE, n |-> tag[2]]))
    /\ log_pc' = "evaluated"
    /\ UNCHANGED <<log_file, log_last, other_than_log>>

LogNext ==
    \/ RecordPredictions
    \/ ReportRun
    \/ EvaluatePredictions

SpecLog == LogInit /\ [][LogNext]_vars

---------------------------------------------------------------------------
(* The eligibility specification: _is_two_plus or _is_one_sack is applied  *)
(* to one outcome of the feed.                                             *)

\* line points in 1/100 on both sides of every threshold of the two rules
BoundaryPoints == {44, 45, 50, 105, 106, 149, 150, 199, 200, 201, 249, 250}

\* outcomes with a numeric line point, and outcomes without one, each with
\* and without the prop's keyword in the description text
BoundaryOutcomes ==
    {[Outcome("fd", "", "A", 150, pt) EXCEPT !.keyword = kw] :
       pt \in BoundaryPoints, kw \in BOOLEAN}
    \cup {[Outcome("fd", "", "A", 150, 0) EXCEPT !.pointed = FALSE, !.keyword = kw] :
            kw \in BOOLEAN}

EligibilityInputs ==
    {[fn |-> "is_two_plus", market |-> m, out |-> [o EXCEPT !.key = m]] :
       m \in Range(market_order("two_td")), o \in BoundaryOutcomes}
    \cup {[fn |-> "is_one_sack", market |-> m, out |-> [o EXCEPT !.key = m]] :
            m \in Range(market_order("sacks")), o \in BoundaryOutcomes}

EligibilityInit ==
    /\ fn_in \in EligibilityInputs
    /\ fn_out = <<>>
    /\ fn_pc = "start"
    /\ StakeIdle
    /\ ModelIdle
    /\ OddsIdle
    /\ LoadIdle
    /\ WeeklyIdle
    /\ LogIdle

other_than_fn == <<stake_vars, model_vars, odds_vars, load_vars, weekly_vars, log_vars>>

\* ok, line = _is_two_plus(market, oc)
IsTwoPlus ==
    /\ fn_pc = "start"
    /\ fn_in.fn = "is_two_plus"
    /\ fn_out' = is_two_plus(fn_in.market, fn_in.out)
    /\ fn_pc' = "done"
    /\ UNCHANGED <<fn_in, other_than_fn>>

\* ok, line = _is_one_sack(str(mk.get("key")), oc)
IsOneSack ==
    /\ fn_pc = "start"
    /\ fn_in.fn = "is_one_sack"
    /\ fn_out' = is_one_sack(fn_in.market, fn_in.out)
    /\ fn_pc' = "done"
    /\ UNCHANGED <<fn_in, other_than_fn>>

EligibilityNext == IsTwoPlus \/ IsOneSack

SpecEligibility == EligibilityInit /\ [][EligibilityNext]_vars

---------------------------------------------------------------------------
(* The price specification: american_to_decimal or american_to_implied is  *)
(* applied to one American price.                                          *)

\* the largest American price, on either side of zero
MaxPrice == 250

AmericanPrices == ((0 - MaxPrice)..MaxPrice) \ {0}

PriceInit ==
    /\ fn_in \in [fn : {"american_to_decimal", "american_to_implied"},
                  american : AmericanPrices]
    /\ fn_out = <<>>
    /\ fn_pc = "start"
    /\ StakeIdle
    /\ ModelIdle
    /\ OddsIdle
    /\ LoadIdle
    /\ WeeklyIdle
    /\ LogIdle

AmericanToDecimal ==
    /\ fn_pc = "start"
    /\ fn_in.fn = "american_to_decimal"
    /\ fn_out' = american_to_decimal(Int2Num(fn_in.american))
    /\ fn_pc' = "done"
    /\ UNCHANGED <<fn_in, other_than_fn>>

AmericanToImplied ==
    /\ fn_pc = "start"
    /\ fn_in.fn = "american_to_implied"
    /\ fn_out' = american_to_implied(Int2Num(fn_in.american))
    /\ fn_pc' = "done"
    /\ UNCHANGED <<fn_in, other_than_fn>>

PriceNext == AmericanToDecimal \/ AmericanToImplied

SpecPrices == PriceInit /\ [][PriceNext]_vars

---------------------------------------------------------------------------
(* Claims about the staking engine, checked under SpecStake.               *)

Zero == Int2Num(0)

StakeDone == stake_pc = "done" /\ stake_out.status = "ok"

StakeRows == DOMAIN stake_out.rows

\* the model probability of row i as the table gives it
RowProb(i) == stake_out.rows[i][stake_out.p_col]

\* the claims' f* = (b*p - (1-p))/b of row i, b = decimal - 1, p clamped
FStar(i) ==
    LET b == Sub(stake_out.rows[i]["decimal"], Int2Num(1))
        pr == Clip(RowProb(i), ClipLo, ClipHi)
    IN  Div(Sub(Mul(b, pr), Sub(Int2Num(1), pr)), b)

\* max(0, x), where an infinite or undefined x counts as 0
Max0(x) == IF IsFin(x) /\ Sign(x) > 0 THEN x ELSE Zero

OutputColumns ==
    {"decimal", "implied_prob", "edge", "kelly_full", "stake_units", "stake_amount"}

\* C4: no value written to decimal, implied_prob, edge, kelly_full,
\* stake_units or stake_amount is NaN or infinite.
C4_OutputsFinite ==
    StakeDone =>
      \A i \in StakeRows : \A c \in OutputColumns : IsFin(stake_out.rows[i][c])

---------------------------------------------------------------------------
(* Claims about the probability models, checked under SpecModel.           *)

\* the end-to-end scenario: Player A with mean_td 1.0 over 10 games quoted
\* at +150, Player B with mean_td 0.2 over 10 games quoted at -500, staked
\* with the default kelly_fraction 0.5 and unit_size 1.0
Scenario ==
    /\ model_pc = "td"
    /\ stake_pc = "done"
    /\ stake_out.status = "ok"
    /\ Len(feat_df.rows) = 2
    /\ feat_df.rows[1]["mean_td"] = Rat(1, 1)
    /\ feat_df.rows[1]["games"] = Int2Num(10)
    /\ feat_df.rows[2]["mean_td"] = Rat(1, 5)
    /\ feat_df.rows[2]["games"] = Int2Num(10)
    /\ stake_df.rows[1]["odds"] = Int2Num(150)
    /\ stake_df.rows[2]["odds"] = Int2Num(-500)
    /\ stake_args = [kelly_fraction |-> Rat(1, 2), unit_size |-> Rat(1, 1)]

\* C2 as stated: in the scenario Player A has a positive edge and a nonzero
\* stake, Player B a negative edge and a zero stake.
C2_PlayerAHasEdge ==
    Scenario =>
      /\ Gt(stake_out.rows[1]["edge"], Zero)
      /\ stake_out.rows[1]["stake_units"] # Zero
      /\ Lt(stake_out.rows[2]["edge"], Zero)
      /\ stake_out.rows[2]["stake_units"] = Zero

\* C2 amended: in the scenario both players have a negative edge and a zero
\* stake; Player A's model probability stays below the implied 0.4 of +150
\* (it is at most the cap 0.30).
C2_NeitherPlayerHasEdge ==
    Scenario =>
      /\ Lt(stake_out.rows[1]["edge"], Zero)
      /\ stake_out.rows[1]["stake_units"] = Zero
      /\ Le(stake_out.rows[1]["model_prob"], td_cap)
      /\ Lt(stake_out.rows[2]["edge"], Zero)
      /\ stake_out.rows[2]["stake_units"] = Zero

\* the scenario, with Player A's probability shrunk below the raw Poisson
\* estimate 0.2642 and above the league prior
C2_Witness ==
    /\ Scenario
    /\ Lt(stake_out.rows[1]["model_prob"], Rat(2642, 10000))
    /\ Gt(stake_out.rows[1]["model_prob"], Rat(5, 100))
    /\ stake_out.rows[1]["implied_prob"] = Rat(2, 5)

ModelRows == DOMAIN model_df.rows

InBand(x, cap) == IsFin(x) /\ Ge(x, Zero) /\ Le(x, cap)

\* max(x, 1): the snaps floor of 1
Floor1(x) == IF Lt(x, Int2Num(1)) THEN Int2Num(1) ELSE x

\* C5: every model_prob of add_model_probability is a number in [0, 0.30],
\* every model_prob of add_sack_model_probability a number in [0, 0.95],
\* the pressure rate being pressures_per_game over pass_rush_snaps floored
\* at 1.
C5_ModelProbInBand ==
    /\ model_pc = "td" =>
         \A i \in ModelRows : InBand(model_df.rows[i]["model_prob"], td_cap)
    /\ model_pc = "sack" =>
         \A i \in ModelRows :
           /\ InBand(model_df.rows[i]["model_prob"], sack_cap)
           /\ pressure_rate(feat_df.rows[i])
                = Div(feat_df.rows[i]["pressures_per_game"],
                      Floor1(feat_df.rows[i]["pass_rush_snaps"]))

---------------------------------------------------------------------------
(* Claims about the odds feed and its normalization, checked under         *)
(* SpecOdds.                                                               *)

Normalized == odds_pc \in {"normalized", "merged"}

OddsIn == DOMAIN odds_rows

OddsOut == DOMAIN odds_df.rows

\* C6: normalize_book_odds and normalize_sack_odds return exactly one row
\* per distinct player of the input rows, and that row carries the lowest
\* implied_prob among the input rows of the player, with the odds of an
\* input row of that player and that implied_prob.
C6_OneBestRowPerPlayer ==
    Normalized =>
      /\ {odds_df.rows[i]["player"] : i \in OddsOut}
           = {odds_rows[j]["player"] : j \in OddsIn}
      /\ \A i, k \in OddsOut :
           odds_df.rows[i]["player"] = odds_df.rows[k]["player"] => i = k
      /\ \A i \in OddsOut :
           /\ \E j \in OddsIn :
                /\ odds_rows[j]["player"] = odds_df.rows[i]["player"]
                /\ odds_rows[j]["implied_prob"] = odds_df.rows[i]["implied_prob"]
                /\ odds_rows[j]["odds"] = odds_df.rows[i]["odds"]
           /\ \A j \in OddsIn :
                odds_rows[j]["player"] = odds_df.rows[i]["player"]
                  => Le(odds_df.rows[i]["implied_prob"], odds_rows[j]["implied_prob"])

\* rows of two players were normalized, and a player's later row has a
\* lower implied_prob than an earlier row of the same player
C6_Witness ==
    /\ Normalized
    /\ Len(odds_df.rows) >= 2
    /\ \E j, k \in OddsIn :
         /\ j < k
         /\ odds_rows[j]["player"] = odds_rows[k]["player"]
         /\ Lt(odds_rows[k]["implied_prob"], odds_rows[j]["implied_prob"])

\* C7: a failed lookup of one event and market never leaves the fetch: the
\* only exception that ends fetch_two_td_odds / fetch_sack_odds is one of
\* the events listing.
C7_LookupFailureSkipped ==
    odds_pc = "raised" => odds_error.at = "events"

\* C10: when the feed yields no qualifying row, the normalized odds table
\* is empty with its expected columns, and the report's join with the model
\* rows on the player column gives zero rows, not an error.
C10_EmptyJoinsToNoRows ==
    (Normalized /\ odds_rows = <<>>) =>
      /\ odds_df.rows = <<>>
      /\ {"player", "odds", "implied_prob"} \subseteq ColSet(odds_df)
      /\ odds_pc = "merged" =>
           odds_merged.status = "ok" /\ odds_merged.rows = <<>>

---------------------------------------------------------------------------
(* Claims about the weekly-stats loader, checked under SpecLoad.           *)

LoadDone == load_pc \in {"returned", "raised"}

\* the load of the requested season failed with HTTP 404 (not published
\* yet) or with an exception that is no HTTPError
Unavailable == load_seen # <<>> /\ load_seen[1] \in {"404", "error"}

\* the call returned the rows of a prior season
Substituted == load_pc = "returned" /\ load_from # load_season

\* the prior seasons the loader may look at: season-5 .. season-1
Lookback == (load_season - 5)..(load_season - 1)

\* the seasons of the lookback with a non-empty table
WithData == {y \in Lookback : load_feed[y] = "data"}

\* the seasons of the lookback whose load is not just skipped
Decisive == {y \in Lookback : load_feed[y] # "none"}

Latest(seasons) == CHOOSE y \in seasons : \A z \in seasons : z <= y

C9_WarningNamesSubstitutedSeason ==
    Substituted =>
      \E i \in DOMAIN load_warnings :
        /\ load_warnings[i].kind = "substituted"
        /\ load_warnings[i].season = load_season
        /\ load_warnings[i].prior_season = load_from

---------------------------------------------------------------------------
(* Claims about the feature computation, checked under SpecFeatures.       *)

FeaturesDone == feats_pc \in {"td", "sack"}

\* the weekly table of the feed names no player under any accepted alias
Anonymous ==
    /\ feature_player_col(weekly_raw) = ""
    /\ FirstPresent(weekly_raw, player_candidates) = ""

\* C11: feature computation on weekly data without a player-identity column
\* raises the missing-column error, also when the data reaches
\* compute_td_rate or compute_sack_features through load_weekly_player_stats
C11_MissingPlayerColumnRaises ==
    (FeaturesDone /\ Anonymous) => feats_out.status = "KeyError"

---------------------------------------------------------------------------
(* Claims about column resolution, checked under SpecColumns.              *)

NamesProbability(df) == \E i \in DOMAIN PROB_COL_CANDIDATES : HasCol(df, PROB_COL_CANDIDATES[i])

NamesOdds(df) == HasCol(df, "decimal") \/ HasCol(df, "american") \/ HasCol(df, "odds")

\* C12: add_edge_and_stake fails with the missing-column error, naming the
\* aliases tried, when no column goes by a probability alias, and likewise
\* when no odds column is present; when it succeeds the model probability
\* is the column of one of the aliases
C12_OnlyAliasesGiveTheProbability ==
    stake_pc = "done" =>
      /\ ~NamesOdds(stake_df) =>
           /\ stake_out.status = "KeyError"
           /\ stake_out.tried = <<"decimal", "american", "odds">>
      /\ (NamesOdds(stake_df) /\ ~NamesProbability(stake_df)) =>
           /\ stake_out.status = "KeyError"
           /\ stake_out.tried = PROB_COL_CANDIDATES
      /\ stake_out.status = "ok" =>
           stake_out.p_col \in Range(PROB_COL_CANDIDATES)

---------------------------------------------------------------------------
(* Claims about the prediction log and its evaluation, checked under       *)
(* SpecLog.                                                                *)

\* the lines of old are the first lines of new, cell by cell
IsPrefixLines(old, new) ==
    /\ Len(old) <= Len(new)
    /\ \A i \in DOMAIN old : new[i].kind = old[i].kind /\ new[i].cells = old[i].cells

\* the file starts with its only header line
HeaderOnlyFirst(file) ==
    file.exists =>
      /\ file.lines # <<>>
      /\ \A i \in DOMAIN file.lines : (file.lines[i].kind = "header") <=> (i = 1)

\* C13: across record_predictions calls the old log is a prefix of the new
\* log, and the header row is written only by the call that creates the file
C13_LogIsAppendOnly ==
    [][/\ log_file.exists => log_file'.exists
       /\ IsPrefixLines(log_file.lines, log_file'.lines)
       /\ HeaderOnlyFirst(log_file')]_vars

\* a second call has appended rows to a log that already held rows
C13_Witness ==
    /\ log_last.op = "record_predictions"
    /\ log_last.before > 0
    /\ log_last.rows > 0
    /\ data_rows(log_file) = log_last.before + log_last.rows

\* C14: a completed report or sacks run appends its rows to the prediction
\* log, which grows by the number of rows reported
C14_ReportRunIsLogged ==
    log_last.op \in {"report", "sacks"} =>
      data_rows(log_file) = log_last.before + log_last.rows

\* the scored rows of an evaluation that found entries
Scored == IF log_pc = "evaluated" THEN eval_out.rows ELSE <<>>

\* C15: the profit of an entry is stake * (decimal_odds - 1) when it hit and
\* -stake when it missed, and ROI is the sum of the profits divided by the
\* sum of the stakes, 0 when the total stake is 0
C15_ProfitFromDecimalOdds ==
    /\ \A i \in DOMAIN Scored :
         Scored[i].profit =
           IF Scored[i].hit
           THEN Mul(Scored[i].pred["stake_units"],
                    Sub(Scored[i].pred["decimal"], Int2Num(1)))
           ELSE Neg(Scored[i].pred["stake_units"])
    /\ Scored # <<>> =>
         eval_out.metrics.roi =
           IF Eq(SeriesSum([i \in DOMAIN Scored |-> Scored[i].pred["stake_units"]]),
                 Int2Num(0))
           THEN Int2Num(0)
           ELSE Div(SeriesSum([i \in DOMAIN Scored |-> Scored[i].profit]),
                    SeriesSum([i \in DOMAIN Scored |-> Scored[i].pred["stake_units"]]))

\* how many elements of a sequence are equal to x
Count(s, x) == Cardinality({i \in DOMAIN s : s[i] = x})

\* the log entries of the season and week evaluated
Requested ==
    IF log_pc = "evaluated" /\ log_file.exists
    THEN SelectSeq(read_csv(log_file).rows,
                   LAMBDA r : r["season"] = eval_args.season /\ r["week"] = eval_args.week)
    ELSE <<>>

Unrealized(pred) ==
    \A i \in DOMAIN eval_args.weekly.rows :
       eval_args.weekly.rows[i]["player"] # pred["player"]

\* C16: a logged entry of the requested season and week whose player has no
\* realized-outcome row is kept, with a realized count of 0 and as a miss;
\* an entry of another season or week is never in the result
C16_UnmatchedKeptOthersExcluded ==
    /\ \A i \in DOMAIN Requested :
         Unrealized(Requested[i]) =>
           /\ Count([j \in DOMAIN Scored |-> Scored[j].pred], Requested[i])
                = Count(Requested, Requested[i])
           /\ \A j \in DOMAIN Scored :
                Scored[j].pred = Requested[i] =>
                  Scored[j].tds = Int2Num(0) /\ ~Scored[j].hit
    /\ \A j \in DOMAIN Scored :
         /\ Scored[j].pred["season"] = eval_args.season
         /\ Scored[j].pred["week"] = eval_args.week

\* an entry of a player without a realized row has been scored against a
\* weekly table that holds rows, and the log holds an entry of another season
C16_Witness ==
    /\ \E i \in DOMAIN Requested : Unrealized(Requested[i])
    /\ eval_args.weekly.rows # <<>>
    /\ Len(Requested) < data_rows(log_file)
    /\ Scored # <<>>

---------------------------------------------------------------------------
(* Claims about the touchdown count of the features, checked under         *)
(* SpecFeatures.                                                           *)

\* a field read from the first alias present, a missing field counting 0
first_alias(df, r, aliases) ==
    IF FirstPresent(df, aliases) = "" THEN Int2Num(0)
    ELSE fillna(r[FirstPresent(df, aliases)], Int2Num(0))

\* rushing plus receiving touchdowns of a weekly row, each counted once
touchdowns_once(df, r) ==
    Add(first_alias(df, r, <<"rushing_td", "rush_td", "rushing_tds">>),
        first_alias(df, r, <<"receiving_td", "rec_td", "receiving_tds">>))

\* C17: the touchdown count of a weekly row used by compute_td_rate is its
\* rushing plus its receiving touchdowns, each read from the first alias
\* present and so counted once; in particular the mean_td of a player with
\* one weekly row is that count
C17_TouchdownsCountedOnce ==
    (feats_pc = "td" /\ feats_out.status = "ok") =>
      /\ \A i \in DOMAIN weekly_df.rows :
           td_frame(weekly_df)[i].td_total = touchdowns_once(weekly_df, weekly_df.rows[i])
      /\ Len(weekly_df.rows) = 1 =>
           feats_out.rows[1]["mean_td"] = touchdowns_once(weekly_df, weekly_df.rows[1])

---------------------------------------------------------------------------
(* Claims about market eligibility, checked under SpecEligibility.         *)

\* the line point N of the outcome satisfies the rule of its market
OnTheLine ==
    CASE fn_in.market = "player_tds_over" ->
           150 <= fn_in.out.point /\ fn_in.out.point < 250
      [] fn_in.market = "player_rush_reception_tds_alternate" ->
           /\ fn_in.out.point - 200 < 1
           /\ 200 - fn_in.out.point < 1
      [] OTHER ->
           45 <= fn_in.out.point /\ fn_in.out.point <= 105

---------------------------------------------------------------------------
(* Claims about the price conversions, checked under SpecPrices.           *)

\* 1 + A/100 for a positive price, 1 + 100/|A| for a negative one
decimal_of(a) ==
    IF a > 0 THEN Add(Int2Num(1), Rat(a, 100)) ELSE Add(Int2Num(1), Rat(100, 0 - a))

\* 100/(A + 100) for a positive price, |A|/(|A| + 100) for a negative one
implied_of(a) ==
    IF a > 0 THEN Rat(100, a + 100) ELSE Rat(0 - a, (0 - a) + 100)

\* C19: for every nonzero American price A, american_to_decimal(A) is
\* 1 + A/100 or 1 + 100/|A|, american_to_implied(A) is 100/(A + 100) or
\* |A|/(|A| + 100), and the implied probability is 1/decimal of that price
C19_ConversionsAgree ==
    fn_pc = "done" =>
      /\ fn_in.fn = "american_to_decimal" => fn_out = decimal_of(fn_in.american)
      /\ fn_in.fn = "american_to_implied" =>
           /\ fn_out = implied_of(fn_in.american)
           /\ Mul(fn_out, american_to_decimal(Int2Num(fn_in.american))) = Int2Num(1)

---------------------------------------------------------------------------
(* Claims about player identity, checked under SpecOdds.                   *)

\* C20: the odds deduplication treats two quotes as quotes of the same
\* player exactly when their names are equal after normalization (lower
\* case, non-alphabetic characters removed): the normalized table holds one
\* row per normalized name of the rows collected
C20_OneRowPerNormalizedName ==
    Normalized =>
      /\ \A i, k \in OddsOut :
           clean_name(odds_df.rows[i]["player"]) = clean_name(odds_df.rows[k]["player"])
             => i = k
      /\ {clean_name(odds_df.rows[i]["player"]) : i \in OddsOut}
           = {clean_name(odds_rows[j]["player"]) : j \in OddsIn}

---------------------------------------------------------------------------
(* Claims about the per-player aggregates, checked under SpecFeatures.     *)

TdRateDone == feats_pc = "td" /\ feats_out.status = "ok"

\* the weekly rows of a (player, team, position) key, and their weeks
KeyRows(k) ==
    {i \in DOMAIN weekly_df.rows : feature_key(td_frame(weekly_df)[i]) = k}

KeyWeeks(k) == {td_frame(weekly_df)[i].week : i \in KeyRows(k)}

\* the touchdowns, each counted once, of a set of weekly rows
TouchdownsOf(S) ==
    SeriesSum([j \in DOMAIN SelectSeq([i \in DOMAIN weekly_df.rows |-> i],
                                      LAMBDA i : i \in S) |->
                 touchdowns_once(
                   weekly_df,
                   weekly_df.rows[SelectSeq([i \in DOMAIN weekly_df.rows |-> i],
                                            LAMBDA i : i \in S)[j]])])

\* the weeks of a key in which its touchdown count was at least 2
TwoPlusWeeks(k) ==
    {w \in KeyWeeks(k) :
       Ge(TouchdownsOf({i \in KeyRows(k) : td_frame(weekly_df)[i].week = w}),
          Int2Num(2))}

FeatureRowKey(r) == <<r["player"], r["team"], r["position"]>>

\* C21: compute_td_rate returns one row per distinct (player, team,
\* position) key, with games the number of distinct weeks of the key,
\* two_plus the number of those weeks with at least 2 touchdowns (so
\* two_plus <= games) and mean_td the mean touchdown count per observed week
C21_OneRowPerKeyWithWeeklyCounts ==
    TdRateDone =>
      /\ \A i, j \in DOMAIN feats_out.rows :
           FeatureRowKey(feats_out.rows[i]) = FeatureRowKey(feats_out.rows[j]) => i = j
      /\ {FeatureRowKey(feats_out.rows[i]) : i \in DOMAIN feats_out.rows}
           = {feature_key(td_frame(weekly_df)[i]) : i \in DOMAIN weekly_df.rows}
      /\ \A i \in DOMAIN feats_out.rows :
           /\ feats_out.rows[i]["games"]
                = Int2Num(Cardinality(KeyWeeks(FeatureRowKey(feats_out.rows[i]))))
           /\ feats_out.rows[i]["two_plus"]
                = Int2Num(Cardinality(TwoPlusWeeks(FeatureRowKey(feats_out.rows[i]))))
           /\ Le(feats_out.rows[i]["two_plus"], feats_out.rows[i]["games"])
           /\ feats_out.rows[i]["mean_td"]
                = Div(TouchdownsOf(KeyRows(FeatureRowKey(feats_out.rows[i]))),
                      Int2Num(Cardinality(KeyWeeks(FeatureRowKey(feats_out.rows[i])))))

\* rush attempts plus targets of a weekly row, each counted once
opportunities_once(df, r) ==
    Add(first_alias(df, r, <<"rushing_att", "rushing_attempts", "rush_att", "carries">>),
        first_alias(df, r, <<"targets", "rec_targets">>))

\* the weekly rows of a player, and the weeks observed for him
PlayerRows(p) ==
    {i \in DOMAIN weekly_df.rows : td_frame(weekly_df)[i].player = p}

PlayerWeeks(p) == {td_frame(weekly_df)[i].week : i \in PlayerRows(p)}

\* the last min(4, n) of the n weeks of a player: those with fewer than
\* four later weeks
RecentWeeks(p) ==
    {w \in PlayerWeeks(p) :
       Cardinality({v \in PlayerWeeks(p) : Gt(v, w)}) < 4}

OpportunitiesOf(S) ==
    SeriesSum([j \in DOMAIN SelectSeq([i \in DOMAIN weekly_df.rows |-> i],
                                      LAMBDA i : i \in S) |->
                 opportunities_once(
                   weekly_df,
                   weekly_df.rows[SelectSeq([i \in DOMAIN weekly_df.rows |-> i],
                                            LAMBDA i : i \in S)[j]])])

\* C22: the recent_opps of a feature row is the mean of the player's
\* opportunities (rush attempts + targets) over the last min(4, n) of his n
\* observed weeks, and is a number whenever the player has a week
C22_RecentOppsIsTrailingMean ==
    TdRateDone =>
      \A i \in DOMAIN feats_out.rows :
         /\ ~IsNaN(feats_out.rows[i]["recent_opps"])
         /\ feats_out.rows[i]["recent_opps"]
              = Div(OpportunitiesOf(
                      {k \in PlayerRows(feats_out.rows[i]["player"]) :
                         td_frame(weekly_df)[k].week
                           \in RecentWeeks(feats_out.rows[i]["player"])}),
                    Int2Num(Cardinality(RecentWeeks(feats_out.rows[i]["player"]))))

---------------------------------------------------------------------------
(* Claims about the shrinkage of the touchdown model, checked under        *)
(* SpecModel.                                                              *)

TdDone == model_pc = "td"

\* w = games / (games + 8) of the feature row i
Weight(i) ==
    Div(feat_df.rows[i]["games"], Add(feat_df.rows[i]["games"], Int2Num(8)))

\* the raw Poisson estimate P(X >= 2) of the feature row i
RawPoisson(i) == poisson_p_ge2(feat_df.rows[i]["mean_td"])

LeaguePrior == td_league_prior(feat_df)

\* w * P_poisson + (1 - w) * p0 of the feature row i
Blend(i) ==
    Add(Mul(Weight(i), RawPoisson(i)),
        Mul(Sub(Int2Num(1), Weight(i)), LeaguePrior))

Between(x, a, b) == (Le(a, x) /\ Le(x, b)) \/ (Le(b, x) /\ Le(x, a))

Distance(x, y) == IF Lt(x, y) THEN Sub(y, x) ELSE Sub(x, y)

\* the parts of C23 about the prior, the weight and the bracket
PriorWeightAndBracket ==
    /\ Le(Rat(2, 1000), LeaguePrior)
    /\ Le(LeaguePrior, Rat(5, 100))
    /\ \A i \in ModelRows :
         /\ feat_df.rows[i]["games"] = Zero
              => Eq(model_df.rows[i]["model_prob"], LeaguePrior)
         /\ Lt(Weight(i), Int2Num(1))
         /\ Between(model_df.rows[i]["model_prob"], LeaguePrior, RawPoisson(i))
    /\ \A i, j \in ModelRows :
         Lt(feat_df.rows[i]["games"], feat_df.rows[j]["games"])
           => Lt(Weight(i), Weight(j))

\* C23 as stated: the model_prob of add_model_probability is the blend
\* w * P_poisson + (1 - w) * p0 with w = games / (games + 8) and p0 in
\* [0.002, 0.05]; a player without games gets p0, w grows strictly with
\* games and stays below 1, and model_prob lies between p0 and the raw
\* Poisson estimate.
C23_OutputIsTheBlend ==
    TdDone =>
      /\ PriorWeightAndBracket
      /\ \A i \in ModelRows : Eq(model_df.rows[i]["model_prob"], Blend(i))

\* C23 amended: model_prob is the blend capped at 0.30; the rest as stated,
\* and of two players of one table with the same mean_td the one with more
\* games is at least as close to the raw Poisson estimate capped at 0.30.
C23_OutputIsTheCappedBlend ==
    TdDone =>
      /\ PriorWeightAndBracket
      /\ \A i \in ModelRows :
           Eq(model_df.rows[i]["model_prob"], ClipUpper(Blend(i), td_cap))
      /\ \A i, j \in ModelRows :
           (/\ feat_df.rows[i]["mean_td"] = feat_df.rows[j]["mean_td"]
            /\ Lt(feat_df.rows[i]["games"], feat_df.rows[j]["games"]))
             => Le(Distance(model_df.rows[j]["model_prob"],
                            ClipUpper(RawPoisson(j), td_cap)),
                   Distance(model_df.rows[i]["model_prob"],
                            ClipUpper(RawPoisson(i), td_cap)))

\* a player without games at the league prior, next to a player with games
\* whose blend exceeds the cap and whose model_prob is the cap
C23_Witness ==
    /\ TdDone
    /\ Len(feat_df.rows) = 2
    /\ feat_df.rows[1]["games"] = Zero
    /\ Eq(model_df.rows[1]["model_prob"], LeaguePrior)
    /\ Gt(feat_df.rows[2]["games"], Zero)
    /\ feat_df.rows[2]["mean_td"] = feat_df.rows[1]["mean_td"]
    /\ Gt(Blend(2), td_cap)
    /\ Eq(model_df.rows[2]["model_prob"], td_cap)

---------------------------------------------------------------------------
(* Claims about the range of both models, checked under SpecModel.         *)

SackDone == model_pc = "sack"

StrictlyInside(x) == IsFin(x) /\ Gt(x, Zero) /\ Lt(x, Int2Num(1))

\* rows i and j of the feature table differ in the column rate at most
SameBut(i, j, rate) ==
    \A c \in DOMAIN feat_df.rows[i] :
       c \notin {"player", rate} => feat_df.rows[i][c] = feat_df.rows[j][c]

\* of two players that differ in the rate only, the one with the higher
\* rate has at least the model_prob of the other
MonotoneIn(rate) ==
    \A i, j \in ModelRows :
       (SameBut(i, j, rate) /\ Le(feat_df.rows[i][rate], feat_df.rows[j][rate]))
         => Le(model_df.rows[i]["model_prob"], model_df.rows[j]["model_prob"])

\* C24 for add_model_probability: model_prob does not decrease with mean_td
\* and is strictly between 0 and 1
TdMonotoneAndInside ==
    TdDone =>
      /\ MonotoneIn("mean_td")
      /\ \A i \in ModelRows : StrictlyInside(model_df.rows[i]["model_prob"])

\* C24 for add_sack_model_probability: model_prob does not decrease with
\* pressures_per_game and is strictly between 0 and 1
SackMonotoneAndInside ==
    SackDone =>
      /\ MonotoneIn("pressures_per_game")
      /\ \A i \in ModelRows : StrictlyInside(model_df.rows[i]["model_prob"])

\* C24: for both models, model_prob is monotone non-decreasing in the
\* player's per-game rate, all other inputs held fixed, and strictly
\* greater than 0 and strictly less than 1 for every player.
C24_MonotoneAndStrictlyInside == TdMonotoneAndInside /\ SackMonotoneAndInside

---------------------------------------------------------------------------
(* Claims about the side of a quote, checked under SpecOdds.               *)

\* the outcomes of the Under side the feed may list under `market`
UnderOutcomes(market) ==
    UNION {{reply[k] : k \in {j \in DOMAIN reply : reply[j].name = "Under"}} :
             reply \in Replies(market)}

\* row i of the rows fetched is the row of an outcome of the Under side
FromUnder(i) ==
    \E out \in UnderOutcomes(odds_rows[i].market) :
       odds_rows[i] = odds_row(odds_rows[i].event_id, odds_rows[i].market, out)

\* C25: every row returned by fetch_two_td_odds and fetch_sack_odds comes
\* from the Over side of its market; an outcome of the Under side is never
\* emitted as a quote.
C25_NoRowFromTheUnderSide ==
    \A i \in DOMAIN odds_rows : ~FromUnder(i)

---------------------------------------------------------------------------
(* Claims about the order of the market lookups, checked under SpecOdds.   *)

Fetching == odds_pc = "fetching"

\* the position of the market of row i in the candidate order
MarketRank(i) ==
    CHOOSE k \in DOMAIN market_order(odds_cmd) :
       market_order(odds_cmd)[k] = odds_rows[i].market

\* C26: for each event the candidate markets are looked up in their fixed
\* order and the lookups of the event stop at the first market that yields
\* a row: all rows of one event carry the same market, and while a market
\* of an event is being looked up no row of that event has been collected
\* (the rows so far are those of earlier events).
C26_StopsAtFirstYieldingMarket ==
    /\ \A i, j \in DOMAIN odds_rows :
         odds_rows[i].event_id = odds_rows[j].event_id
           => odds_rows[i].market = odds_rows[j].market
    /\ \A i \in DOMAIN odds_rows :
         \E k \in DOMAIN market_order(odds_cmd) :
            market_order(odds_cmd)[k] = odds_rows[i].market
    /\ Fetching =>
         /\ odds_mk \in DOMAIN market_order(odds_cmd)
         /\ \A i \in DOMAIN odds_rows : odds_rows[i].event_id < odds_ev

\* the first event quoted in the second candidate market only, after its
\* first market yielded no row, and the second event in the first market
C26_Witness ==
    /\ odds_pc = "fetched"
    /\ odds_events = 2
    /\ \E i, j \in DOMAIN odds_rows :
         /\ odds_rows[i].event_id = 1 /\ MarketRank(i) = 2
         /\ odds_rows[j].event_id = 2 /\ MarketRank(j) = 1

---------------------------------------------------------------------------
(* Claims about the number of scored rows, checked under SpecLog.          *)

\* C27: evaluate_predictions scores every logged entry of the requested
\* season and week exactly once: the scored rows are as many as the log
\* entries of that season and week, repeated entries included, the metric
\* n is that number, and this whatever the realized-outcome table holds.
C27_EveryEntryScoredOnce ==
    log_pc = "evaluated" =>
      /\ Len(Scored) = Len(Requested)
      /\ eval_out.metrics.given => eval_out.metrics.n = Len(Requested)
      /\ \A i \in DOMAIN Requested :
           Count([j \in DOMAIN Scored |-> Scored[j].pred], Requested[i])
             = Count(Requested, Requested[i])

===========================================================================
